---- MODULE Spec2Model ----
(***************************************************************************)
(* Model of the pghelp SQL query builder (query-builder.ts): the SELECT    *)
(* assembler TableQueryBuilder and the INSERT / UPDATE / DELETE assemblers. *)
(*                                                                         *)
(* SQL text is a sequence of lexemes.  A lexeme is a record [t, n]: plain  *)
(* text has n = 0, a placeholder "$n" is [t |-> "$", n |-> n] and a number  *)
(* printed into the text (LIMIT 5) is [t |-> "#", n |-> 5].  A JavaScript   *)
(* string is such a sequence, template literals are concatenations.        *)
(***************************************************************************)
EXTENDS Integers, Sequences, FiniteSets, TLC

\* ------------------------------------------------------------------------
\* Bounds of the exploration
\* ------------------------------------------------------------------------
\* builder calls made on one draft before it is rendered
MaxCalls == 2
\* scalar values bound by predicates are 1..MaxVal
MaxVal == 2
\* longest array handed to an IN predicate
MaxArr == 2
\* most rows handed to insert()
MaxRows == 3
\* calls on one predicate draft
MaxPredicates == 3
\* calls on one draft of each of two interleaved builders
MaxTwoCalls == 2
\* migration files
MaxMigrations == 3
\* the count of a revert
MaxRevert == 2
\* calls on one parameter-free draft
MaxOrderCalls == 3
\* where(), orWhere() and having() calls on one draft
MaxBindCalls == 3

\* ------------------------------------------------------------------------
\* Text
\* ------------------------------------------------------------------------
T(s) == [t |-> s, n |-> 0]
P(n) == [t |-> "$", n |-> n]
Num(n) == [t |-> "#", n |-> n]
S(s) == <<T(s)>>

IsPlaceholder(tok) == tok.t = "$"

\* Array.prototype.join: the strings of list with sep between them
RECURSIVE JoinStr(_, _)
JoinStr(list, sep) ==
  IF Len(list) = 0 THEN <<>>
  ELSE IF Len(list) = 1 THEN list[1]
  ELSE list[1] \o sep \o JoinStr(Tail(list), sep)

\* the concatenation of the strings of list
RECURSIVE Concat(_)
Concat(list) == IF Len(list) = 0 THEN <<>> ELSE Head(list) \o Concat(Tail(list))

\* Array.prototype.filter
Filter(list, Keep(_)) == SelectSeq(list, Keep)

\* String.prototype.includes(".")
IncludesDot(str) == \E i \in 1..Len(str) : str[i] = T(".")

\* the placeholder numbers of a text, in text order
RECURSIVE PlaceholderSeq(_)
PlaceholderSeq(sql) ==
  IF Len(sql) = 0 THEN <<>>
  ELSE (IF IsPlaceholder(Head(sql)) THEN <<Head(sql).n>> ELSE <<>>)
       \o PlaceholderSeq(Tail(sql))

PlaceholderSet(sql) == {sql[i].n : i \in {j \in 1..Len(sql) : IsPlaceholder(sql[j])}}

\* ------------------------------------------------------------------------
\* Values
\* ------------------------------------------------------------------------
Scalar(v) == [kind |-> "scalar", items |-> <<v>>]
Array(a) == [kind |-> "array", items |-> a]
Undefined == [kind |-> "undefined", items |-> <<>>]
Null == [kind |-> "null", items |-> <<>>]
IsArray(v) == v.kind = "array"
\* mutant: push(value) where the code has push(...value)
SpreadWhole(v) == <<v>>

\* the elements of an array value, as values
Spread(v) == [i \in 1..Len(v.items) |-> Scalar(v.items[i])]

\* optional fields: undefined or a value
None == [def |-> FALSE, v |-> <<>>]
Some(x) == [def |-> TRUE, v |-> x]

\* ------------------------------------------------------------------------
\* TableQueryBuilder
\* ------------------------------------------------------------------------
NewTableQueryBuilder(table, alias) ==
  [tableName |-> table,
   baseAlias |-> IF alias # "" THEN alias ELSE "base",
   operation |-> "SELECT",
   selectedColumns |-> <<>>,
   params |-> <<>>,
   whereClauses |-> <<>>,
   joins |-> <<>>,
   includes |-> <<>>,
   ctes |-> <<>>,
   tableAliases |-> <<>>,
   orderByClauses |-> <<>>,
   limitValue |-> None,
   offsetValue |-> None,
   groupByClauses |-> <<>>,
   havingClauses |-> <<>>,
   isDistinct |-> FALSE]

\* QueryBuilder.from: alias || String(table)
From(table, alias) == NewTableQueryBuilder(table, IF alias # "" THEN alias ELSE table)

\* `${this.baseAlias}.${String(column)}`
Qualified(d, column) == S(d.baseAlias) \o S(".") \o column

With(d, name, query) ==
  [d EXCEPT !.ctes = Append(@, [name |-> name, query |-> query])]

Select(d, columns) ==
  [d EXCEPT !.operation = "SELECT", !.selectedColumns = @ \o columns]

\* a variant that lets IN with an empty array through
WhereThrowsNoEmptyIn(operator, value) == value.kind \in {"undefined", "null"}

\* where() and orWhere() throw on undefined / null and on IN with an empty array
WhereThrows(operator, value) ==
  \/ value.kind \in {"undefined", "null"}
  \/ operator = "IN" /\ IsArray(value) /\ Len(value.items) = 0

\* the placeholders `$${this.params.length + index + 1}` of an IN list
InPlaceholders(nparams, value) ==
  [index \in 1..Len(value.items) |-> <<P(nparams + (index - 1) + 1)>>]

\* the predicate text and the parameters a where() / orWhere() call adds;
\* prefix is <<>> for where() and "OR" for orWhere()
WhereClauseOf(d, prefix, column, operator, value) ==
  LET col == IF IncludesDot(column) THEN column ELSE Qualified(d, column)
  IN IF operator = "IN" /\ IsArray(value)
     THEN prefix \o col \o S(operator) \o S("(")
          \o JoinStr(InPlaceholders(Len(d.params), value), S(",")) \o S(")")
     ELSE prefix \o col \o S(operator) \o <<P(Len(d.params) + 1)>>

WhereParamsOf(d, operator, value) ==
  IF operator = "IN" /\ IsArray(value)
  THEN d.params \o Spread(value)
  ELSE Append(d.params, value)

Where(d, column, operator, value) ==
  [d EXCEPT !.whereClauses = Append(@, WhereClauseOf(d, <<>>, column, operator, value)),
            !.params = WhereParamsOf(d, operator, value)]

OrWhere(d, column, operator, value) ==
  [d EXCEPT !.whereClauses = Append(@, WhereClauseOf(d, S("OR"), column, operator, value)),
            !.params = WhereParamsOf(d, operator, value)]

\* a variant of join that also puts its selects in the select list
JoinSelects(d, type, localTable, foreignTable, localColumn, foreignColumn, alias, selects) ==
  [d EXCEPT !.joins = Append(@,
     [type |-> type, alias |-> alias, localTable |-> localTable,
      foreignTable |-> foreignTable, localColumn |-> localColumn,
      foreignColumn |-> foreignColumn, projection |-> selects]),
            !.selectedColumns =
              @ \o [i \in 1..Len(selects) |-> S(alias) \o S(".") \o S(selects[i])]]

Join(d, type, localTable, foreignTable, localColumn, foreignColumn, alias, selects) ==
  [d EXCEPT !.joins = Append(@,
     [type |-> type, alias |-> alias, localTable |-> localTable,
      foreignTable |-> foreignTable, localColumn |-> localColumn,
      foreignColumn |-> foreignColumn, projection |-> selects])]

\* alias is "" when the caller passes none; projection is None or Some(columns)
Include(d, table, localColumn, foreignColumn, alias, projection) ==
  [d EXCEPT !.includes = Append(@,
     [alias |-> IF alias # "" THEN alias ELSE table,
      table |-> table,
      localColumn |-> Qualified(d, S(localColumn)),
      foreignColumn |-> foreignColumn,
      projection |-> projection])]

Aggregate(d, functionName, column, alias) ==
  [d EXCEPT !.selectedColumns = Append(@,
     S(functionName) \o S("(") \o Qualified(d, S(column)) \o S(")")
     \o S("AS") \o S(alias))]

Count(d, column, alias) == Aggregate(d, "COUNT", column, alias)

OrderByThrows(direction) == direction # "ASC" /\ direction # "DESC"

OrderBy(d, column, direction) ==
  [d EXCEPT !.orderByClauses = Append(@, Qualified(d, S(column)) \o S(direction))]

Limit(d, value) == [d EXCEPT !.limitValue = Some(value)]

Offset(d, value) == [d EXCEPT !.offsetValue = Some(value)]

GroupBy(d, columns) ==
  [d EXCEPT !.groupByClauses =
     @ \o [i \in 1..Len(columns) |-> Qualified(d, S(columns[i]))]]

\* a variant that numbers the placeholder by the HAVING predicates so far
HavingNumbersOwn(d, column, operator, value) ==
  [d EXCEPT !.params = Append(@, value),
            !.havingClauses = Append(@, column \o S(operator)
                                        \o <<P(Len(d.havingClauses) + 1)>>)]

Having(d, column, operator, value) ==
  [d EXCEPT !.params = Append(@, value),
            !.havingClauses = Append(@, column \o S(operator) \o <<P(Len(d.params) + 1)>>)]

Distinct(d) == [d EXCEPT !.isDistinct = TRUE]

SelectSubquery(d, alias, subquery) ==
  [d EXCEPT !.selectedColumns =
              Append(@, S("(") \o subquery.sql \o S(")") \o S("AS") \o S(alias)),
            !.params = @ \o subquery.params]

\* mutant: the subquery text embedded without the offset
AdjustSQLNoOffset(sql, offset) == sql

\* subquery.sql.replace(/\$(\d+)/g, (_, index) => `$${+index + offset}`)
AdjustSQL(sql, offset) ==
  [i \in 1..Len(sql) |->
     IF IsPlaceholder(sql[i]) THEN P(sql[i].n + offset) ELSE sql[i]]

WhereSubquery(d, column, operator, subquery) ==
  LET offset == Len(d.params)
      adjustedSQL == AdjustSQL(subquery.sql, offset)
      placeholder == S("(") \o adjustedSQL \o S(")")
  IN [d EXCEPT !.whereClauses = Append(@, S(column) \o S(operator) \o placeholder),
               !.params = @ \o subquery.params]

\* partitionBy and orderBy are sequences, empty when not supplied
Window(d, functionName, column, alias, partitionBy, orderBy) ==
  LET partitionClause ==
        IF Len(partitionBy) > 0
        THEN S("PARTITION") \o S("BY")
             \o JoinStr([i \in 1..Len(partitionBy) |-> Qualified(d, S(partitionBy[i]))], S(","))
        ELSE <<>>
      orderByClause ==
        IF Len(orderBy) > 0
        THEN S("ORDER") \o S("BY")
             \o JoinStr([i \in 1..Len(orderBy) |->
                           Qualified(d, S(orderBy[i].column)) \o S(orderBy[i].direction)],
                        S(","))
        ELSE <<>>
      NonEmpty(clause) == Len(clause) > 0
      overClause == JoinStr(Filter(<<partitionClause, orderByClause>>, NonEmpty), <<>>)
  IN [d EXCEPT !.selectedColumns = Append(@,
        S(functionName) \o S("(") \o Qualified(d, S(column)) \o S(")")
        \o S("OVER") \o S("(") \o overClause \o S(")") \o S("AS") \o S(alias))]

\* mutant: a reset that forgets the parameter list
ResetStateKeepsParams(d) ==
  [d EXCEPT !.selectedColumns = <<>>,
            !.whereClauses = <<>>,
            !.joins = <<>>,
            !.includes = <<>>,
            !.ctes = <<>>,
            !.orderByClauses = <<>>,
            !.limitValue = None,
            !.offsetValue = None,
            !.groupByClauses = <<>>,
            !.havingClauses = <<>>,
            !.isDistinct = FALSE]

ResetState(d) ==
  [d EXCEPT !.selectedColumns = <<>>,
            !.params = <<>>,
            !.whereClauses = <<>>,
            !.joins = <<>>,
            !.includes = <<>>,
            !.ctes = <<>>,
            !.orderByClauses = <<>>,
            !.limitValue = None,
            !.offsetValue = None,
            !.groupByClauses = <<>>,
            !.havingClauses = <<>>,
            !.isDistinct = FALSE]

IncludeError == "When using include, please explicitly call select() with at least one column."

\* the guard at the head of toSQL
ToSQLThrows(d) == Len(d.includes) > 0 /\ Len(d.selectedColumns) = 0

\* the lexemes a where clause starts with that make startsWith("OR") true
ORPrefixed == {"OR", "ORG", "ORDERS"}
StartsWithOR(w) == Len(w) > 0 /\ Head(w).t \in ORPrefixed
\* clause.replace(/^OR /, "")
StripOR(w) == IF Len(w) > 0 /\ Head(w) = T("OR") THEN Tail(w) ELSE w

\* this.tableAliases[name]: "" when the record has no such key
LookupAlias(tableAliases, name) ==
  IF \E i \in 1..Len(tableAliases) : tableAliases[i].table = name
  THEN tableAliases[CHOOSE i \in 1..Len(tableAliases) : tableAliases[i].table = name].alias
  ELSE ""

IncludeSelect(inc) ==
  IF inc.projection.def /\ Len(inc.projection.v) > 0
  THEN LET objParts == JoinStr([i \in 1..Len(inc.projection.v) |->
                                  S("'") \o S(inc.projection.v[i]) \o S("'") \o S(",")
                                  \o S(inc.alias) \o S(".") \o S(inc.projection.v[i])],
                               S(","))
       IN S("COALESCE(json_agg(json_build_object(") \o objParts
          \o S(")) FILTER (WHERE") \o S(inc.alias) \o S(".id IS NOT NULL), '[]') AS")
          \o S(inc.alias)
  ELSE S("COALESCE(json_agg(") \o S(inc.alias) \o S(".*) FILTER (WHERE")
       \o S(inc.alias) \o S(".id IS NOT NULL), '[]') AS") \o S(inc.alias)

\* the sql of the statement toSQL builds from draft d
\* a variant that looks the join's alias up among the CTE names
IsCTEByAlias(ctes, join) == \E i \in 1..Len(ctes) : ctes[i].name = join.alias

\* this.ctes.some((cte) => cte.name === join.foreignTable), at toSQL time
IsCTE(ctes, join) == \E i \in 1..Len(ctes) : ctes[i].name = join.foreignTable

ToSQLText(d) ==
  LET baseTable == d.tableName
      tableAlias == IF LookupAlias(d.tableAliases, d.tableName) # ""
                    THEN LookupAlias(d.tableAliases, d.tableName) ELSE d.baseAlias
      selectClause ==
        JoinStr(<<(IF d.isDistinct THEN S("DISTINCT") ELSE <<>>)
                  \o (IF Len(d.selectedColumns) > 0
                      THEN JoinStr(d.selectedColumns, S(","))
                      ELSE S(tableAlias) \o S(".") \o S("*"))>>
                \o [i \in 1..Len(d.includes) |-> IncludeSelect(d.includes[i])],
                S(","))
      cteClause ==
        IF Len(d.ctes) > 0
        THEN S("WITH")
             \o JoinStr([i \in 1..Len(d.ctes) |->
                           S(d.ctes[i].name) \o S("AS") \o S("(")
                           \o d.ctes[i].query.sql \o S(")")],
                        S(","))
        ELSE <<>>
      JoinText(join) ==
        S(join.type) \o S("JOIN") \o S(join.foreignTable)
        \o (IF IsCTE(d.ctes, join) THEN <<>> ELSE S("AS") \o S(join.alias))
        \o S("ON") \o S(join.localTable) \o S(".") \o S(join.localColumn)
        \o S("=") \o S(join.alias) \o S(".") \o S(join.foreignColumn)
      IncText(inc) ==
        S("LEFT") \o S("JOIN") \o S(inc.table) \o S("AS") \o S(inc.alias)
        \o S("ON") \o S(inc.alias) \o S(".") \o S(inc.foreignColumn)
        \o S("=") \o inc.localColumn
      NotOR(w) == ~StartsWithOR(w)
      orClauses == Filter(d.whereClauses, StartsWithOR)
      andClauses == Filter(d.whereClauses, NotOR)
      whereText ==
        IF Len(d.whereClauses) > 0
        THEN S("WHERE") \o JoinStr(andClauses, S("AND"))
             \o (IF Len(orClauses) > 1
                 THEN S("AND") \o S("(")
                      \o JoinStr([i \in 1..Len(orClauses) |-> StripOR(orClauses[i])], S("OR"))
                      \o S(")")
                 ELSE IF Len(orClauses) = 1 THEN orClauses[1] ELSE <<>>)
        ELSE <<>>
  IN cteClause \o S("SELECT") \o selectClause \o S("FROM") \o S(baseTable)
     \o S("AS") \o S(tableAlias)
     \o Concat([i \in 1..Len(d.joins) |-> JoinText(d.joins[i])])
     \o Concat([i \in 1..Len(d.includes) |-> IncText(d.includes[i])])
     \o whereText
     \o (IF Len(d.groupByClauses) > 0
         THEN S("GROUP") \o S("BY") \o JoinStr(d.groupByClauses, S(",")) ELSE <<>>)
     \o (IF Len(d.havingClauses) > 0
         THEN S("HAVING") \o JoinStr(d.havingClauses, S("AND")) ELSE <<>>)
     \o (IF Len(d.orderByClauses) > 0
         THEN S("ORDER") \o S("BY") \o JoinStr(d.orderByClauses, S(",")) ELSE <<>>)
     \o (IF d.limitValue.def THEN S("LIMIT") \o <<Num(d.limitValue.v)>> ELSE <<>>)
     \o (IF d.offsetValue.def THEN S("OFFSET") \o <<Num(d.offsetValue.v)>> ELSE <<>>)

\* the QueryResult toSQL returns for draft d
ToSQLParams(d) == d.params

ToSQL(d) == [sql |-> ToSQLText(d), params |-> ToSQLParams(d)]

\* ------------------------------------------------------------------------
\* Objects: a row or a set map is the sequence of its [key, value] entries,
\* in Object.keys order
\* ------------------------------------------------------------------------
Keys(obj) == [i \in 1..Len(obj) |-> obj[i].key]
HasKey(obj, k) == \E i \in 1..Len(obj) : obj[i].key = k
\* obj[k]: undefined when the key is missing
Get(obj, k) ==
  IF HasKey(obj, k) THEN obj[CHOOSE i \in 1..Len(obj) : obj[i].key = k].value
  ELSE Undefined

\* ------------------------------------------------------------------------
\* InsertQueryBuilder
\* ------------------------------------------------------------------------
\* ` RETURNING ${this.returningColumns.join(", ")}`
ReturningText(returningColumns) ==
  IF returningColumns.def
  THEN S("RETURNING")
       \o JoinStr([i \in 1..Len(returningColumns.v) |-> S(returningColumns.v[i])], S(","))
  ELSE <<>>

\* values is [isArray, rows]: one object (isArray FALSE, one row) or an array
NewInsertQueryBuilder(table, values) ==
  [table |-> table, values |-> values,
   returningColumns |-> None, conflictClause |-> None]

InsertReturning(b, columns) == [b EXCEPT !.returningColumns = Some(columns)]

OnConflict(b, conflictColumns, updateColumns) ==
  [b EXCEPT !.conflictClause = Some(
     S("ON") \o S("CONFLICT") \o S("(")
     \o JoinStr([i \in 1..Len(conflictColumns) |-> S(conflictColumns[i])], S(","))
     \o S(")") \o S("DO") \o S("UPDATE") \o S("SET")
     \o JoinStr([i \in 1..Len(updateColumns) |->
                   S(updateColumns[i].key) \o S("=") \o S("EXCLUDED") \o S(".")
                   \o S(updateColumns[i].key)],
                S(",")))]

InsertResetState(b) ==
  [b EXCEPT !.returningColumns = None, !.conflictClause = None,
            !.values = [isArray |-> TRUE, rows |-> <<>>]]

InsertError == "No rows provided for insert."

InsertRows(b) == b.values.rows

\* a variant that also refuses a single row
InsertToSQLThrowsOnSingle(b) == Len(InsertRows(b)) <= 1

InsertToSQLThrows(b) == Len(InsertRows(b)) = 0

\* mutant: the placeholder printed before the value is pushed
RECURSIVE RowPlaceholdersBeforePush(_, _, _)
RowPlaceholdersBeforePush(row, columns, params) ==
  IF Len(columns) = 0 THEN [text |-> <<>>, params |-> params]
  ELSE LET pushed == Append(params, Get(row, Head(columns)))
           rest == RowPlaceholdersBeforePush(row, Tail(columns), pushed)
       IN [text |-> <<<<P(Len(params))>>>> \o rest.text, params |-> rest.params]

\* columns.map over one row: pushes row[col] and prints `$${params.length}`
RECURSIVE RowPlaceholders(_, _, _)
RowPlaceholders(row, columns, params) ==
  IF Len(columns) = 0 THEN [text |-> <<>>, params |-> params]
  ELSE LET pushed == Append(params, Get(row, Head(columns)))
           rest == RowPlaceholders(row, Tail(columns), pushed)
       IN [text |-> <<<<P(Len(pushed))>>>> \o rest.text, params |-> rest.params]

\* rows.map: one parenthesised tuple per row
RECURSIVE ValueTuples(_, _, _)
ValueTuples(rows, columns, params) ==
  IF Len(rows) = 0 THEN [text |-> <<>>, params |-> params]
  ELSE LET one == RowPlaceholders(Head(rows), columns, params)
           rest == ValueTuples(Tail(rows), columns, one.params)
       IN [text |-> <<S("(") \o JoinStr(one.text, S(",")) \o S(")")>> \o rest.text,
           params |-> rest.params]

InsertToSQL(b) ==
  LET rows == InsertRows(b)
      columns == Keys(rows[1])
      columnList == JoinStr([i \in 1..Len(columns) |-> S(columns[i])], S(","))
      tuples == ValueTuples(rows, columns, <<>>)
  IN [sql |-> S("INSERT") \o S("INTO") \o S(b.table) \o S("(") \o columnList \o S(")")
              \o S("VALUES") \o JoinStr(tuples.text, S(","))
              \o (IF b.conflictClause.def THEN b.conflictClause.v ELSE <<>>)
              \o ReturningText(b.returningColumns),
      params |-> tuples.params]

\* ------------------------------------------------------------------------
\* UpdateQueryBuilder
\* ------------------------------------------------------------------------
NewUpdateQueryBuilder(table, setClause) ==
  [table |-> table, setClause |-> setClause, allowUnsafe |-> FALSE,
   wheres |-> <<>>, returningColumns |-> None, batchUpdates |-> None]

AllowUnsafeUpdate(b) == [b EXCEPT !.wheres = <<>>, !.allowUnsafe = TRUE]

UpdateBatchUpdate(b, values) == [b EXCEPT !.batchUpdates = Some(values)]

\* TableQueryBuilder.batchUpdate
BatchUpdate(table, values) == UpdateBatchUpdate(NewUpdateQueryBuilder(table, <<>>), values)

PushWhere(b, type, column, operator, value) ==
  [b EXCEPT !.wheres = Append(@,
     [type |-> type, column |-> column, operator |-> operator, value |-> value])]

UpdateWhere(b, column, operator, value) == PushWhere(b, "AND", column, operator, value)

UpdateOrWhere(b, column, operator, value) == PushWhere(b, "OR", column, operator, value)

UpdateReturning(b, columns) == [b EXCEPT !.returningColumns = Some(columns)]

UpdateResetState(b) ==
  [b EXCEPT !.wheres = <<>>, !.returningColumns = None, !.batchUpdates = None]

WhereRequiredError == "WHERE clause is required for UPDATE or DELETE operations."
EmptyInError == "Invalid value for WHERE clause: IN operator requires a non-empty array"

UpdateMissingWhere(b) ==
  ~b.allowUnsafe /\ Len(b.wheres) = 0 /\ ~b.batchUpdates.def

\* the throw inside this.wheres.map
EmptyInWhere(wheres) ==
  \E i \in 1..Len(wheres) :
     wheres[i].operator = "IN" /\ IsArray(wheres[i].value)
     /\ Len(wheres[i].value.items) = 0

UpdateToSQLThrows(b) ==
  \/ UpdateMissingWhere(b)
  \/ ~b.batchUpdates.def /\ EmptyInWhere(b.wheres)

UpdateToSQLError(b) ==
  IF UpdateMissingWhere(b) THEN WhereRequiredError ELSE EmptyInError

\* Object.entries(obj).map(([col, val]) => { params.push(val); `${col} = $n` })
RECURSIVE EqualityParts(_, _)
EqualityParts(obj, params) ==
  IF Len(obj) = 0 THEN [text |-> <<>>, params |-> params]
  ELSE LET pushed == Append(params, Head(obj).value)
           rest == EqualityParts(Tail(obj), pushed)
       IN [text |-> <<S(Head(obj).key) \o S("=") \o <<P(Len(pushed))>>>> \o rest.text,
           params |-> rest.params]

\* the distinct keys of the set maps, in order of first appearance
RECURSIVE UpdateColumns(_, _)
UpdateColumns(updates, seen) ==
  IF Len(updates) = 0 THEN seen
  ELSE LET RECURSIVE AddAll(_, _)
           AddAll(keys, acc) ==
             IF Len(keys) = 0 THEN acc
             ELSE AddAll(Tail(keys),
                         IF \A i \in 1..Len(acc) : acc[i] # Head(keys)
                         THEN Append(acc, Head(keys)) ELSE acc)
       IN UpdateColumns(Tail(updates), AddAll(Keys(Head(updates).set), seen))

\* a variant that pushes the set value of a pair before its where values
RECURSIVE CaseBranchesSetFirst(_, _, _)
CaseBranchesSetFirst(updates, col, params) ==
  IF Len(updates) = 0 THEN [text |-> <<>>, params |-> params]
  ELSE LET pushed == Append(params, Get(Head(updates).set, col))
           w == EqualityParts(Head(updates).where, pushed)
           rest == CaseBranchesSetFirst(Tail(updates), col, w.params)
       IN [text |-> <<S("WHEN") \o JoinStr(w.text, S("AND")) \o S("THEN")
                      \o <<P(Len(pushed))>>>> \o rest.text,
           params |-> rest.params]

\* the WHEN ... THEN $n branches of one column
RECURSIVE CaseBranches(_, _, _)
CaseBranches(updates, col, params) ==
  IF Len(updates) = 0 THEN [text |-> <<>>, params |-> params]
  ELSE LET w == EqualityParts(Head(updates).where, params)
           pushed == Append(w.params, Get(Head(updates).set, col))
           rest == CaseBranches(Tail(updates), col, pushed)
       IN [text |-> <<S("WHEN") \o JoinStr(w.text, S("AND")) \o S("THEN")
                      \o <<P(Len(pushed))>>>> \o rest.text,
           params |-> rest.params]

\* one `col = CASE ... ELSE col END` per column
RECURSIVE CaseSets(_, _, _)
CaseSets(columns, updates, params) ==
  IF Len(columns) = 0 THEN [text |-> <<>>, params |-> params]
  ELSE LET col == Head(columns)
           cases == CaseBranches(updates, col, params)
           rest == CaseSets(Tail(columns), updates, cases.params)
       IN [text |-> <<S(col) \o S("=") \o S("CASE") \o JoinStr(cases.text, <<>>)
                      \o S("ELSE") \o S(col) \o S("END")>> \o rest.text,
           params |-> rest.params]

\* the per-pair predicates of the batch WHERE
RECURSIVE BatchWheres(_, _)
BatchWheres(updates, params) ==
  IF Len(updates) = 0 THEN [text |-> <<>>, params |-> params]
  ELSE LET w == EqualityParts(Head(updates).where, params)
           rest == BatchWheres(Tail(updates), w.params)
       IN [text |-> <<JoinStr(w.text, S("AND"))>> \o rest.text, params |-> rest.params]

\* this.wheres.map of the single-row UPDATE: IN over an array is `= ANY($n)`
RECURSIVE UpdateWhereParts(_, _)
UpdateWhereParts(wheres, params) ==
  IF Len(wheres) = 0 THEN [text |-> <<>>, params |-> params]
  ELSE LET w == Head(wheres)
           pushed == Append(params, w.value)
           part == IF w.operator = "IN" /\ IsArray(w.value)
                   THEN w.column \o S("=") \o S("ANY") \o S("(")
                        \o <<P(Len(pushed))>> \o S(")")
                   ELSE w.column \o S(w.operator) \o <<P(Len(pushed))>>
           rest == UpdateWhereParts(Tail(wheres), pushed)
       IN [text |-> <<part>> \o rest.text, params |-> rest.params]

UpdateToSQL(b) ==
  IF b.batchUpdates.def
  THEN LET updates == b.batchUpdates.v
           sets == CaseSets(UpdateColumns(updates, <<>>), updates, <<>>)
           wheres == BatchWheres(updates, sets.params)
       IN [sql |-> S("UPDATE") \o S(b.table) \o S("SET") \o JoinStr(sets.text, S(","))
                   \o S("WHERE") \o JoinStr(wheres.text, S("OR"))
                   \o ReturningText(b.returningColumns),
           params |-> wheres.params]
  ELSE LET setParts == EqualityParts(b.setClause, <<>>)
           whereParts == UpdateWhereParts(b.wheres, setParts.params)
       IN [sql |-> S("UPDATE") \o S(b.table) \o S("SET") \o JoinStr(setParts.text, S(","))
                   \o (IF Len(whereParts.text) > 0
                       THEN S("WHERE") \o JoinStr(whereParts.text, S("AND")) ELSE <<>>)
                   \o ReturningText(b.returningColumns),
           params |-> whereParts.params]

\* ------------------------------------------------------------------------
\* DeleteQueryBuilder
\* ------------------------------------------------------------------------
NewDeleteQueryBuilder(table) ==
  [table |-> table, wheres |-> <<>>, returningColumns |-> None,
   allowDeleteWithoutWhere |-> FALSE]

AllowUnsafeDelete(b) == [b EXCEPT !.allowDeleteWithoutWhere = TRUE]

DeleteWhere(b, column, operator, value) == PushWhere(b, "AND", column, operator, value)

DeleteOrWhere(b, column, operator, value) == PushWhere(b, "OR", column, operator, value)

DeleteReturning(b, columns) == [b EXCEPT !.returningColumns = Some(columns)]

DeleteResetState(b) ==
  [b EXCEPT !.wheres = <<>>, !.returningColumns = None,
            !.allowDeleteWithoutWhere = FALSE]

\* mutant: the guard without the override
DeleteMissingWhereNoOverride(b) == Len(b.wheres) = 0

DeleteMissingWhere(b) == Len(b.wheres) = 0 /\ ~b.allowDeleteWithoutWhere

DeleteToSQLThrows(b) == DeleteMissingWhere(b) \/ EmptyInWhere(b.wheres)

DeleteToSQLError(b) ==
  IF DeleteMissingWhere(b) THEN WhereRequiredError ELSE EmptyInError

\* this.wheres.map of DELETE: IN over an array is an explicit placeholder list
RECURSIVE DeleteWhereParts(_, _)
DeleteWhereParts(wheres, params) ==
  IF Len(wheres) = 0 THEN [text |-> <<>>, params |-> params]
  ELSE LET w == Head(wheres)
           isIn == w.operator = "IN" /\ IsArray(w.value)
           pushed == IF isIn THEN params \o Spread(w.value) ELSE Append(params, w.value)
           part == IF isIn
                   THEN w.column \o S(w.operator) \o S("(")
                        \o JoinStr(InPlaceholders(Len(params), w.value), S(",")) \o S(")")
                   ELSE w.column \o S(w.operator) \o <<P(Len(pushed))>>
           rest == DeleteWhereParts(Tail(wheres), pushed)
       IN [text |-> <<part>> \o rest.text, params |-> rest.params]

DeleteToSQL(b) ==
  LET whereParts == DeleteWhereParts(b.wheres, <<>>)
  IN [sql |-> S("DELETE") \o S("FROM") \o S(b.table)
              \o (IF Len(whereParts.text) > 0
                  THEN S("WHERE") \o JoinStr(whereParts.text, S("AND")) ELSE <<>>)
              \o ReturningText(b.returningColumns),
      params |-> whereParts.params]

\* ------------------------------------------------------------------------
\* Inputs of the calls
\* ------------------------------------------------------------------------
BaseTable == "users"
Aliases == {"", "u"}

Values == 1..MaxVal
\* arrays of distinct values in descending order, the empty array included
Arrays == {[i \in 1..n |-> n + 1 - i] : n \in 0..MaxArr}

ColId == S("id")
ColDotted == S("p") \o S(".") \o S("id")

\* (column, operator, value) of where() / orWhere()
WhereInputs ==
  {[column |-> ColId, operator |-> "=", value |-> Scalar(v)] : v \in Values}
  \cup {[column |-> ColId, operator |-> "IN", value |-> Array(a)] : a \in Arrays}
  \cup {[column |-> ColDotted, operator |-> ">", value |-> Scalar(1)],
        [column |-> ColId, operator |-> "=", value |-> Undefined],
        [column |-> ColId, operator |-> "IN", value |-> Scalar(1)]}

OrWhereInputs ==
  {[column |-> ColId, operator |-> "=", value |-> Scalar(1)],
   [column |-> ColId, operator |-> "=", value |-> Null]}
  \cup {[column |-> ColId, operator |-> "IN", value |-> Array(a)] : a \in Arrays}

HavingInputs ==
  {[column |-> S("COUNT(id)"), operator |-> ">", value |-> Scalar(v)] : v \in Values}

\* rendered statements handed to with(), selectSubquery() and whereSubquery():
\* results of toSQL on a posts builder with 0, 1 and 2 parameters
SubDraft == Select(From("posts", ""), <<S("user_id")>>)
Sub0 == ToSQL(SubDraft)
Sub1 == ToSQL(Where(SubDraft, S("user_id"), "=", Scalar(7)))
Sub2 == ToSQL(Having(Where(SubDraft, S("title"), "LIKE", Scalar(8)),
                     S("COUNT(id)"), ">", Scalar(9)))
SubQueries == {Sub0, Sub1, Sub2}

CteName == "post_counts"

JoinInputs ==
  {[type |-> "INNER", localTable |-> "users", foreignTable |-> "posts",
    localColumn |-> "id", foreignColumn |-> "user_id", alias |-> "p",
    selects |-> <<"title">>],
   [type |-> "LEFT", localTable |-> "users", foreignTable |-> CteName,
    localColumn |-> "id", foreignColumn |-> "user_id", alias |-> CteName,
    selects |-> <<>>]}

IncludeInputs ==
  {[table |-> "posts", localColumn |-> "id", foreignColumn |-> "user_id",
    alias |-> "", projection |-> None],
   [table |-> "posts", localColumn |-> "id", foreignColumn |-> "user_id",
    alias |-> "p", projection |-> Some(<<"id", "title">>)]}

SelectInputs == {<<>>, <<S("id"), S("name")>>}

WindowInputs ==
  {[partitionBy |-> <<>>, orderBy |-> <<>>],
   [partitionBy |-> <<"name">>, orderBy |-> <<[column |-> "id", direction |-> "DESC"]>>]}

Directions == {"ASC", "DESC", "UP"}

\* rows of insert(): row j holds the distinct values 10j+1, 10j+2; every third
\* row lacks the first key
PoolRow(j) ==
  IF j % 3 = 0 THEN <<[key |-> "name", value |-> Scalar(10 * j + 2)]>>
  ELSE <<[key |-> "id", value |-> Scalar(10 * j + 1)],
         [key |-> "name", value |-> Scalar(10 * j + 2)]>>

InsertInputs ==
  {[isArray |-> TRUE, rows |-> [j \in 1..n |-> PoolRow(j)]] : n \in 0..MaxRows}
  \cup {[isArray |-> FALSE, rows |-> <<PoolRow(1)>>]}

SetInputs ==
  {<<[key |-> "email", value |-> Scalar(5)]>>,
   <<[key |-> "name", value |-> Scalar(6)], [key |-> "email", value |-> Scalar(5)]>>}

BatchInputs ==
  {<<>>,
   <<[where |-> <<[key |-> "id", value |-> Scalar(1)]>>,
      set |-> <<[key |-> "name", value |-> Scalar(6)]>>],
     [where |-> <<[key |-> "id", value |-> Scalar(2)]>>,
      set |-> <<[key |-> "email", value |-> Scalar(5)]>>]>>,
   <<[where |-> <<>>, set |-> <<[key |-> "name", value |-> Scalar(6)]>>]>>,
   <<[where |-> <<[key |-> "id", value |-> Scalar(1)], [key |-> "name", value |-> Scalar(3)]>>,
      set |-> <<[key |-> "name", value |-> Scalar(6)], [key |-> "email", value |-> Scalar(5)]>>],
     [where |-> <<[key |-> "id", value |-> Scalar(2)]>>,
      set |-> <<[key |-> "email", value |-> Scalar(7)], [key |-> "name", value |-> Scalar(8)]>>]>>}

\* (column, operator, value) of the where() / orWhere() of UPDATE and DELETE
MutationWhereInputs ==
  {[column |-> ColId, operator |-> "=", value |-> Scalar(v)] : v \in Values}
  \cup {[column |-> ColId, operator |-> "IN", value |-> Array(a)] : a \in Arrays}
  \cup {[column |-> ColId, operator |-> "=", value |-> Undefined]}

ReturningInputs == {<<"id", "email">>}

\* ------------------------------------------------------------------------
\* State
\* ------------------------------------------------------------------------
VARIABLES
  kind,          \* which builder the caller is driving: "table", "insert", "update", "delete"
  tqb,           \* the TableQueryBuilder returned by from()
  fresh,         \* a newly created TableQueryBuilder given the calls made on tqb since its last render
  ins,           \* the InsertQueryBuilder, when kind = "insert"
  upd,           \* the UpdateQueryBuilder, when kind = "update"
  del,           \* the DeleteQueryBuilder, when kind = "delete"
  ncalls,        \* calls made on the current draft
  reused,        \* tqb has rendered a statement before the current draft
  calledUnsafe,  \* allowUnsafeUpdate / allowUnsafeDelete was called on the current draft
  last,          \* the last call: its name, arguments, outcome
  held,          \* a QueryResult the caller kept from an earlier toSQL
  root,          \* the root QueryBuilder: its alias field
  builders,      \* the builders of two from() calls on the same root
  files,         \* the numeric prefixes of the .sql files of the up and down directories
  db,            \* the database: the bookkeeping table and the migrations in effect
  run,           \* the runMigrations call in progress
  calls          \* the calls made on the current draft, in call order

vars == <<kind, tqb, fresh, ins, upd, del, ncalls, reused, calledUnsafe, last, held,
          root, builders, files, db, run, calls>>

\* the state outside the single builder: untouched by its calls
aside == <<held, root, builders, files, db, run, calls>>

NoResult == [has |-> FALSE]

\* class QueryBuilder: `private alias: string = "base"`
NewQueryBuilder == [alias |-> "base"]

\* a variant of from() that passes the alias the root held before the call
RootFromStale(r, table, alias) ==
  [root |-> [r EXCEPT !.alias = IF alias # "" THEN alias ELSE table],
   builder |-> NewTableQueryBuilder(table, r.alias)]

\* QueryBuilder.from on root r: assigns this.alias, then passes it to the new
\* TableQueryBuilder
RootFrom(r, table, alias) ==
  LET assigned == [r EXCEPT !.alias = IF alias # "" THEN alias ELSE table]
  IN [root |-> assigned, builder |-> NewTableQueryBuilder(table, assigned.alias)]

Callers == {1, 2}

NoRun == [active |-> FALSE]

AsideInit ==
  /\ held = NoResult
  /\ builders = [i \in Callers |-> [has |-> FALSE]]
  /\ files = {}
  /\ db = [exists |-> FALSE, rows |-> <<>>, schema |-> {}, txn |-> [open |-> FALSE]]
  /\ run = NoRun
  /\ calls = <<>>

NoBuilder == [table |-> ""]

Init ==
  /\ kind = "table"
  /\ \E alias \in Aliases :
       /\ tqb = From(BaseTable, alias)
       /\ root = RootFrom(NewQueryBuilder, BaseTable, alias).root
  /\ fresh = tqb
  /\ ins = NoBuilder
  /\ upd = NoBuilder
  /\ del = NoBuilder
  /\ ncalls = 0
  /\ reused = FALSE
  /\ calledUnsafe = FALSE
  /\ last = [op |-> "from", threw |-> FALSE]
  /\ AsideInit

\* a call on the TableQueryBuilder that returns: the same call reaches fresh
TableCall(op, next, nextFresh) ==
  /\ kind = "table"
  /\ ncalls < MaxCalls
  /\ tqb' = next
  /\ fresh' = nextFresh
  /\ ncalls' = ncalls + 1
  /\ last' = op
  /\ UNCHANGED <<kind, ins, upd, del, reused, calledUnsafe>>
  /\ UNCHANGED aside

\* a call on the TableQueryBuilder that throws
TableThrow(op) ==
  /\ kind = "table"
  /\ ncalls < MaxCalls
  /\ last' = op
  /\ UNCHANGED <<kind, tqb, fresh, ins, upd, del, ncalls, reused, calledUnsafe>>
  /\ UNCHANGED aside

Called(name) == [op |-> name, threw |-> FALSE]
Threw(name, error) == [op |-> name, threw |-> TRUE, error |-> error]

TWith ==
  \E q \in SubQueries :
    TableCall(Called("with"), With(tqb, CteName, q), With(fresh, CteName, q))

TSelect ==
  \E columns \in SelectInputs :
    TableCall(Called("select"), Select(tqb, columns), Select(fresh, columns))

TWhere ==
  \E in \in WhereInputs :
    IF WhereThrows(in.operator, in.value)
    THEN TableThrow(Threw("where", "Invalid value for WHERE clause"))
    ELSE TableCall([op |-> "where", threw |-> FALSE, M |-> Len(tqb.params), arg |-> in],
                   Where(tqb, in.column, in.operator, in.value),
                   Where(fresh, in.column, in.operator, in.value))

TOrWhere ==
  \E in \in OrWhereInputs :
    IF WhereThrows(in.operator, in.value)
    THEN TableThrow(Threw("orWhere", "Invalid value for WHERE clause"))
    ELSE TableCall([op |-> "orWhere", threw |-> FALSE, M |-> Len(tqb.params), arg |-> in],
                   OrWhere(tqb, in.column, in.operator, in.value),
                   OrWhere(fresh, in.column, in.operator, in.value))

TJoin ==
  \E j \in JoinInputs :
    TableCall(Called("join"),
              Join(tqb, j.type, j.localTable, j.foreignTable, j.localColumn,
                   j.foreignColumn, j.alias, j.selects),
              Join(fresh, j.type, j.localTable, j.foreignTable, j.localColumn,
                   j.foreignColumn, j.alias, j.selects))

TInclude ==
  \E i \in IncludeInputs :
    TableCall(Called("include"),
              Include(tqb, i.table, i.localColumn, i.foreignColumn, i.alias, i.projection),
              Include(fresh, i.table, i.localColumn, i.foreignColumn, i.alias, i.projection))

TCount ==
  TableCall(Called("count"), Count(tqb, "id", "n"), Count(fresh, "id", "n"))

TAggregate ==
  TableCall(Called("aggregate"),
            Aggregate(tqb, "MAX", "id", "m"), Aggregate(fresh, "MAX", "id", "m"))

TWindow ==
  \E w \in WindowInputs :
    TableCall(Called("window"),
              Window(tqb, "RANK", "id", "r", w.partitionBy, w.orderBy),
              Window(fresh, "RANK", "id", "r", w.partitionBy, w.orderBy))

TOrderBy ==
  \E direction \in Directions :
    IF OrderByThrows(direction)
    THEN TableThrow(Threw("orderBy", "Invalid sort direction"))
    ELSE TableCall(Called("orderBy"),
                   OrderBy(tqb, "name", direction), OrderBy(fresh, "name", direction))

TLimit == TableCall(Called("limit"), Limit(tqb, 5), Limit(fresh, 5))

TOffset == TableCall(Called("offset"), Offset(tqb, 10), Offset(fresh, 10))

TGroupBy ==
  TableCall(Called("groupBy"), GroupBy(tqb, <<"name">>), GroupBy(fresh, <<"name">>))

THaving ==
  \E in \in HavingInputs :
    TableCall([op |-> "having", threw |-> FALSE, M |-> Len(tqb.params), arg |-> in],
              Having(tqb, in.column, in.operator, in.value),
              Having(fresh, in.column, in.operator, in.value))

TDistinct == TableCall(Called("distinct"), Distinct(tqb), Distinct(fresh))

TSelectSubquery ==
  \E q \in SubQueries :
    TableCall([op |-> "selectSubquery", threw |-> FALSE, M |-> Len(tqb.params), sub |-> q],
              SelectSubquery(tqb, "sq", q), SelectSubquery(fresh, "sq", q))

TWhereSubquery ==
  \E q \in SubQueries :
    TableCall([op |-> "whereSubquery", threw |-> FALSE, M |-> Len(tqb.params), sub |-> q],
              WhereSubquery(tqb, "id", "IN", q), WhereSubquery(fresh, "id", "IN", q))

\* toSQL of the TableQueryBuilder: throws and leaves the draft, or returns the
\* statement and resets the builder
TToSQL ==
  /\ kind = "table"
  /\ IF ToSQLThrows(tqb)
     THEN /\ last' = [op |-> "toSQL", threw |-> TRUE, error |-> IncludeError,
                      pre |-> tqb, reused |-> reused,
                      freshThrew |-> ToSQLThrows(fresh)]
          /\ UNCHANGED <<tqb, fresh, ncalls, reused>>
     ELSE /\ last' = [op |-> "toSQL", threw |-> FALSE, result |-> ToSQL(tqb),
                      pre |-> tqb, reused |-> reused,
                      freshThrew |-> ToSQLThrows(fresh),
                      freshResult |-> ToSQL(fresh)]
          /\ tqb' = ResetState(tqb)
          /\ fresh' = NewTableQueryBuilder(tqb.tableName, tqb.baseAlias)
          /\ ncalls' = 0
          /\ reused' = TRUE
  /\ UNCHANGED <<kind, ins, upd, del, calledUnsafe>>
  /\ UNCHANGED aside

\* insert(), update(), batchUpdate(), delete() of the TableQueryBuilder set its
\* operation and hand out a new builder; they are explored at the head of a
\* chain, from(t).insert(v), and the caller then drives the new builder
Create(op, operation) ==
  /\ kind = "table"
  /\ ncalls = 0
  /\ tqb' = [tqb EXCEPT !.operation = operation]
  /\ fresh' = [fresh EXCEPT !.operation = operation]
  /\ last' = Called(op)
  /\ calledUnsafe' = FALSE
  /\ UNCHANGED <<ncalls, reused>>
  /\ UNCHANGED aside

TInsert ==
  \E values \in InsertInputs :
    /\ Create("insert", "INSERT")
    /\ kind' = "insert"
    /\ ins' = NewInsertQueryBuilder(tqb.tableName, values)
    /\ UNCHANGED <<upd, del>>

TUpdate ==
  \E setClause \in SetInputs :
    /\ Create("update", "UPDATE")
    /\ kind' = "update"
    /\ upd' = NewUpdateQueryBuilder(tqb.tableName, setClause)
    /\ UNCHANGED <<ins, del>>

TBatchUpdate ==
  \E values \in BatchInputs :
    /\ Create("batchUpdate", "UPDATE")
    /\ kind' = "update"
    /\ upd' = BatchUpdate(tqb.tableName, values)
    /\ UNCHANGED <<ins, del>>

TDelete ==
  /\ Create("delete", "DELETE")
  /\ kind' = "delete"
  /\ del' = NewDeleteQueryBuilder(tqb.tableName)
  /\ UNCHANGED <<ins, upd>>

\* ---- InsertQueryBuilder
InsertCall(op, next) ==
  /\ kind = "insert"
  /\ ncalls < MaxCalls
  /\ ins' = next
  /\ ncalls' = ncalls + 1
  /\ last' = Called(op)
  /\ UNCHANGED <<kind, tqb, fresh, upd, del, reused, calledUnsafe>>
  /\ UNCHANGED aside

IReturning ==
  \E columns \in ReturningInputs : InsertCall("insert.returning", InsertReturning(ins, columns))

IOnConflict ==
  InsertCall("insert.onConflict",
             OnConflict(ins, <<"id">>, <<[key |-> "name", value |-> Scalar(1)]>>))

IToSQL ==
  /\ kind = "insert"
  /\ IF InsertToSQLThrows(ins)
     THEN /\ last' = [op |-> "insert.toSQL", threw |-> TRUE, error |-> InsertError,
                      pre |-> ins]
          /\ UNCHANGED <<ins, ncalls>>
     ELSE /\ last' = [op |-> "insert.toSQL", threw |-> FALSE, result |-> InsertToSQL(ins),
                      pre |-> ins]
          /\ ins' = InsertResetState(ins)
          /\ ncalls' = 0
  /\ UNCHANGED <<kind, tqb, fresh, upd, del, reused, calledUnsafe>>
  /\ UNCHANGED aside

\* ---- UpdateQueryBuilder
UpdateCall(op, next, unsafe) ==
  /\ kind = "update"
  /\ ncalls < MaxCalls
  /\ upd' = next
  /\ ncalls' = ncalls + 1
  /\ last' = Called(op)
  /\ calledUnsafe' = unsafe
  /\ UNCHANGED <<kind, tqb, fresh, ins, del, reused>>
  /\ UNCHANGED aside

UAllowUnsafeUpdate == UpdateCall("update.allowUnsafeUpdate", AllowUnsafeUpdate(upd), TRUE)

UBatchUpdate ==
  \E values \in BatchInputs :
    UpdateCall("update.batchUpdate", UpdateBatchUpdate(upd, values), calledUnsafe)

UWhere ==
  \E in \in MutationWhereInputs :
    UpdateCall("update.where", UpdateWhere(upd, in.column, in.operator, in.value), calledUnsafe)

UOrWhere ==
  \E in \in MutationWhereInputs :
    UpdateCall("update.orWhere", UpdateOrWhere(upd, in.column, in.operator, in.value), calledUnsafe)

UReturning ==
  \E columns \in ReturningInputs :
    UpdateCall("update.returning", UpdateReturning(upd, columns), calledUnsafe)

\* a variant whose throwing toSQL has already reset the builder
UToSQLResetsOnThrow ==
  /\ kind = "update"
  /\ IF UpdateToSQLThrows(upd)
     THEN /\ last' = [op |-> "update.toSQL", threw |-> TRUE, error |-> UpdateToSQLError(upd),
                      pre |-> upd, calledUnsafe |-> calledUnsafe]
          /\ upd' = UpdateResetState(upd)
          /\ UNCHANGED <<ncalls, calledUnsafe>>
     ELSE /\ last' = [op |-> "update.toSQL", threw |-> FALSE, result |-> UpdateToSQL(upd),
                      pre |-> upd, calledUnsafe |-> calledUnsafe]
          /\ upd' = UpdateResetState(upd)
          /\ ncalls' = 0
          /\ calledUnsafe' = FALSE
  /\ UNCHANGED <<kind, tqb, fresh, ins, del, reused>>
  /\ UNCHANGED aside

UToSQL ==
  /\ kind = "update"
  /\ IF UpdateToSQLThrows(upd)
     THEN /\ last' = [op |-> "update.toSQL", threw |-> TRUE, error |-> UpdateToSQLError(upd),
                      pre |-> upd, calledUnsafe |-> calledUnsafe]
          /\ UNCHANGED <<upd, ncalls, calledUnsafe>>
     ELSE /\ last' = [op |-> "update.toSQL", threw |-> FALSE, result |-> UpdateToSQL(upd),
                      pre |-> upd, calledUnsafe |-> calledUnsafe]
          /\ upd' = UpdateResetState(upd)
          /\ ncalls' = 0
          /\ calledUnsafe' = FALSE
  /\ UNCHANGED <<kind, tqb, fresh, ins, del, reused>>
  /\ UNCHANGED aside

\* ---- DeleteQueryBuilder
DeleteCall(op, next, unsafe) ==
  /\ kind = "delete"
  /\ ncalls < MaxCalls
  /\ del' = next
  /\ ncalls' = ncalls + 1
  /\ last' = Called(op)
  /\ calledUnsafe' = unsafe
  /\ UNCHANGED <<kind, tqb, fresh, ins, upd, reused>>
  /\ UNCHANGED aside

DAllowUnsafeDelete == DeleteCall("delete.allowUnsafeDelete", AllowUnsafeDelete(del), TRUE)

DWhere ==
  \E in \in MutationWhereInputs :
    DeleteCall("delete.where", DeleteWhere(del, in.column, in.operator, in.value), calledUnsafe)

DOrWhere ==
  \E in \in MutationWhereInputs :
    DeleteCall("delete.orWhere", DeleteOrWhere(del, in.column, in.operator, in.value), calledUnsafe)

DReturning ==
  \E columns \in ReturningInputs :
    DeleteCall("delete.returning", DeleteReturning(del, columns), calledUnsafe)

DToSQL ==
  /\ kind = "delete"
  /\ IF DeleteToSQLThrows(del)
     THEN /\ last' = [op |-> "delete.toSQL", threw |-> TRUE, error |-> DeleteToSQLError(del),
                      pre |-> del, calledUnsafe |-> calledUnsafe]
          /\ UNCHANGED <<del, ncalls, calledUnsafe>>
     ELSE /\ last' = [op |-> "delete.toSQL", threw |-> FALSE, result |-> DeleteToSQL(del),
                      pre |-> del, calledUnsafe |-> calledUnsafe]
          /\ del' = DeleteResetState(del)
          /\ ncalls' = 0
          /\ calledUnsafe' = FALSE
  /\ UNCHANGED <<kind, tqb, fresh, ins, upd, reused>>
  /\ UNCHANGED aside

Next ==
  \/ TWith \/ TSelect \/ TWhere \/ TOrWhere \/ TJoin \/ TInclude \/ TCount
  \/ TAggregate \/ TWindow \/ TOrderBy \/ TLimit \/ TOffset \/ TGroupBy
  \/ THaving \/ TDistinct \/ TSelectSubquery \/ TWhereSubquery \/ TToSQL
  \/ TInsert \/ TUpdate \/ TBatchUpdate \/ TDelete
  \/ IReturning \/ IOnConflict \/ IToSQL
  \/ UAllowUnsafeUpdate \/ UBatchUpdate \/ UWhere \/ UOrWhere \/ UReturning \/ UToSQL
  \/ DAllowUnsafeDelete \/ DWhere \/ DOrWhere \/ DReturning \/ DToSQL

Spec == Init /\ [][Next]_vars

\* ------------------------------------------------------------------------
\* Predicate drafts: one TableQueryBuilder driven through where(), orWhere()
\* and toSQL only, with up to MaxPredicates calls per draft, under an alias
\* that is the table name or begins with the letters OR
\* ------------------------------------------------------------------------
PredicateAliases == {"", "ORG"}

InitPredicates ==
  /\ kind = "table"
  /\ \E alias \in PredicateAliases :
       /\ tqb = From(BaseTable, alias)
       /\ root = RootFrom(NewQueryBuilder, BaseTable, alias).root
  /\ fresh = tqb
  /\ ins = NoBuilder
  /\ upd = NoBuilder
  /\ del = NoBuilder
  /\ ncalls = 0
  /\ reused = FALSE
  /\ calledUnsafe = FALSE
  /\ last = [op |-> "from", threw |-> FALSE]
  /\ AsideInit

PredicateCall(op, next, nextFresh) ==
  /\ kind = "table"
  /\ ncalls < MaxPredicates
  /\ tqb' = next
  /\ fresh' = nextFresh
  /\ ncalls' = ncalls + 1
  /\ last' = op
  /\ UNCHANGED <<kind, ins, upd, del, reused, calledUnsafe>>
  /\ UNCHANGED aside

PredicateThrow(op) ==
  /\ kind = "table"
  /\ ncalls < MaxPredicates
  /\ last' = op
  /\ UNCHANGED <<kind, tqb, fresh, ins, upd, del, ncalls, reused, calledUnsafe>>
  /\ UNCHANGED aside

PWhere ==
  \E in \in WhereInputs :
    IF WhereThrows(in.operator, in.value)
    THEN PredicateThrow([op |-> "where", threw |-> TRUE,
                         error |-> "Invalid value for WHERE clause",
                         arg |-> in, pre |-> tqb])
    ELSE PredicateCall([op |-> "where", threw |-> FALSE, M |-> Len(tqb.params),
                        arg |-> in, pre |-> tqb],
                       Where(tqb, in.column, in.operator, in.value),
                       Where(fresh, in.column, in.operator, in.value))

POrWhere ==
  \E in \in OrWhereInputs :
    IF WhereThrows(in.operator, in.value)
    THEN PredicateThrow([op |-> "orWhere", threw |-> TRUE,
                         error |-> "Invalid value for WHERE clause",
                         arg |-> in, pre |-> tqb])
    ELSE PredicateCall([op |-> "orWhere", threw |-> FALSE, M |-> Len(tqb.params),
                        arg |-> in, pre |-> tqb],
                       OrWhere(tqb, in.column, in.operator, in.value),
                       OrWhere(fresh, in.column, in.operator, in.value))

NextPredicates == PWhere \/ POrWhere \/ TToSQL

SpecPredicates == InitPredicates /\ [][NextPredicates]_vars

\* ------------------------------------------------------------------------
\* Kept results: the caller keeps the QueryResult of one toSQL call, goes on
\* calling the same builder and hands the kept result to with(),
\* selectSubquery() and whereSubquery(). The params of a QueryResult is an
\* array object: held.shared says that it is the array this.params refers to,
\* so that a push on this.params shows in held.params
\* ------------------------------------------------------------------------
\* const q = builder.toSQL(): `params: this.params` puts the builder's own
\* array in the result; sqlThen and paramsThen record what the caller saw
KeepResult(result) ==
  [has |-> TRUE, sql |-> result.sql, params |-> result.params, shared |-> TRUE,
   sqlThen |-> result.sql, paramsThen |-> result.params]

\* a variant of resetState that empties this.params in place
RebindParamsInPlace(h) == h

\* resetState: `this.params = []` binds this.params to a new array
RebindParams(h) == [h EXCEPT !.shared = FALSE]

\* the kept result after the builder's draft became d
WriteThrough(h, d) == IF h.has /\ h.shared THEN [h EXCEPT !.params = d.params] ELSE h

\* the kept result as an argument of with / selectSubquery / whereSubquery
AsQuery(h) == [sql |-> h.sql, params |-> h.params]

HeldCall(op, next) ==
  /\ kind = "table"
  /\ ncalls < MaxCalls
  /\ tqb' = next
  /\ ncalls' = ncalls + 1
  /\ last' = Called(op)
  /\ held' = WriteThrough(held, next)
  /\ UNCHANGED <<kind, fresh, ins, upd, del, reused, calledUnsafe, root, builders, files, db, run, calls>>

HWhere ==
  \E v \in Values : HeldCall("where", Where(tqb, ColId, "=", Scalar(v)))

HWith ==
  /\ held.has
  /\ HeldCall("with", With(tqb, CteName, AsQuery(held)))

HSelectSubquery ==
  /\ held.has
  /\ HeldCall("selectSubquery", SelectSubquery(tqb, "sq", AsQuery(held)))

HWhereSubquery ==
  /\ held.has
  /\ HeldCall("whereSubquery", WhereSubquery(tqb, "id", "IN", AsQuery(held)))

\* toSQL; the caller keeps the first result it chooses to keep
HToSQL ==
  /\ kind = "table"
  /\ ~ToSQLThrows(tqb)
  /\ last' = [op |-> "toSQL", threw |-> FALSE, result |-> ToSQL(tqb), pre |-> tqb]
  /\ tqb' = ResetState(tqb)
  /\ ncalls' = 0
  /\ reused' = TRUE
  /\ \E keep \in BOOLEAN :
       held' = IF keep /\ ~held.has
               THEN WriteThrough(RebindParams(KeepResult(ToSQL(tqb))), ResetState(tqb))
               ELSE WriteThrough(held, ResetState(tqb))
  /\ UNCHANGED <<kind, fresh, ins, upd, del, calledUnsafe, root, builders, files, db, run, calls>>

NextHeld == HWhere \/ HWith \/ HSelectSubquery \/ HWhereSubquery \/ HToSQL

SpecHeld == Init /\ [][NextHeld]_vars

\* ------------------------------------------------------------------------
\* Two builders: two callers each obtain a builder from from() on the same
\* root and call it, their calls interleaved in every order. builders[i].solo
\* is the builder of caller i's calls made alone, on a root of its own
\* ------------------------------------------------------------------------
InitTwo ==
  /\ kind = "table"
  /\ tqb = NoBuilder
  /\ fresh = NoBuilder
  /\ ins = NoBuilder
  /\ upd = NoBuilder
  /\ del = NoBuilder
  /\ ncalls = 0
  /\ reused = FALSE
  /\ calledUnsafe = FALSE
  /\ last = [op |-> "createQueryBuilder", threw |-> FALSE]
  /\ root = NewQueryBuilder
  /\ AsideInit

TwoFrom ==
  \E i \in Callers : \E alias \in Aliases :
    /\ ~builders[i].has
    /\ root' = RootFrom(root, BaseTable, alias).root
    /\ builders' = [builders EXCEPT ![i] =
                      [has |-> TRUE, n |-> 0,
                       draft |-> RootFrom(root, BaseTable, alias).builder,
                       solo |-> RootFrom(NewQueryBuilder, BaseTable, alias).builder]]
    /\ last' = [op |-> "two.from", threw |-> FALSE, who |-> i]
    /\ UNCHANGED <<kind, tqb, fresh, ins, upd, del, ncalls, reused, calledUnsafe, held, files, db, run, calls>>

TwoCall(i, op, next, nextSolo) ==
  /\ builders[i].has
  /\ builders[i].n < MaxTwoCalls
  /\ builders' = [builders EXCEPT ![i].draft = next, ![i].solo = nextSolo,
                                   ![i].n = @ + 1]
  /\ last' = [op |-> op, threw |-> FALSE, who |-> i]
  /\ UNCHANGED <<kind, tqb, fresh, ins, upd, del, ncalls, reused, calledUnsafe, held, root, files, db, run, calls>>

TwoWhere ==
  \E i \in Callers : \E v \in Values :
    TwoCall(i, "two.where", Where(builders[i].draft, ColId, "=", Scalar(v)),
            Where(builders[i].solo, ColId, "=", Scalar(v)))

TwoLimit ==
  \E i \in Callers :
    TwoCall(i, "two.limit", Limit(builders[i].draft, 5), Limit(builders[i].solo, 5))

TwoToSQL ==
  \E i \in Callers :
    /\ builders[i].has
    /\ last' = [op |-> "two.toSQL", threw |-> FALSE, who |-> i,
                result |-> ToSQL(builders[i].draft),
                soloResult |-> ToSQL(builders[i].solo)]
    /\ builders' = [builders EXCEPT ![i].draft = ResetState(@),
                                     ![i].solo = ResetState(@), ![i].n = 0]
    /\ UNCHANGED <<kind, tqb, fresh, ins, upd, del, ncalls, reused, calledUnsafe, held, root, files, db, run, calls>>

NextTwo == TwoFrom \/ TwoWhere \/ TwoLimit \/ TwoToSQL

SpecTwo == InitTwo /\ [][NextTwo]_vars

\* ------------------------------------------------------------------------
\* The migration runner. A migration file NNN_name.sql is its numeric prefix;
\* db.rows are the names of the bookkeeping table in id order, db.schema the
\* migrations whose up SQL is in effect
\* ------------------------------------------------------------------------
\* .sort((a, b) => Number(a.split("_")[0]) - Number(b.split("_")[0]))
RECURSIVE SortByPrefix(_)
SortByPrefix(names) ==
  IF names = {} THEN <<>>
  ELSE LET least == CHOOSE n \in names : \A m \in names : n <= m
       IN <<least>> \o SortByPrefix(names \ {least})

\* Array.prototype.reverse
Reverse(list) == [i \in 1..Len(list) |-> list[Len(list) + 1 - i]]

\* Array.prototype.slice(0, n)
Slice(list, n) == SubSeq(list, 1, IF n < Len(list) THEN n ELSE Len(list))

\* the migrationFiles of a call, lines 43-55
MigrationFiles(direction, numberOfMigrations) ==
  IF direction = "down"
  THEN Slice(Reverse(SortByPrefix(files)), numberOfMigrations)
  ELSE SortByPrefix(files)

\* a variant that runs every up file, recorded or not
ShouldRunIgnoresApplied(direction, applied, fileName) ==
  \/ direction = "up"
  \/ direction = "down" /\ fileName \in applied

\* shouldRun, lines 58-60
ShouldRun(direction, applied, fileName) ==
  \/ direction = "up" /\ fileName \notin applied
  \/ direction = "down" /\ fileName \in applied

\* DELETE FROM migrations WHERE name = $1
DeleteName(rows, fileName) ==
  LET Other(name) == name # fileName IN SelectSeq(rows, Other)

\* the statements runMigrations sends to the client inside the loop
Statement(q, fileName) == [q |-> q, name |-> fileName]

\* client.query(statement) on database d. BEGIN opens a transaction, COMMIT
\* keeps what was done since, ROLLBACK undoes it; "UP" and "DOWN" are the SQL
\* of a migration file
Query(d, statement) ==
  CASE statement.q = "BEGIN" ->
         [d EXCEPT !.txn = [open |-> TRUE, rows |-> d.rows, schema |-> d.schema]]
    [] statement.q = "UP" -> [d EXCEPT !.schema = @ \cup {statement.name}]
    [] statement.q = "DOWN" -> [d EXCEPT !.schema = @ \ {statement.name}]
    [] statement.q = "INSERT" -> [d EXCEPT !.rows = Append(@, statement.name)]
    [] statement.q = "DELETE" -> [d EXCEPT !.rows = DeleteName(@, statement.name)]
    [] statement.q = "COMMIT" -> [d EXCEPT !.txn = [open |-> FALSE]]
    [] statement.q = "ROLLBACK" ->
         IF d.txn.open
         THEN [d EXCEPT !.rows = d.txn.rows, !.schema = d.txn.schema,
                        !.txn = [open |-> FALSE]]
         ELSE d

\* the database after the statements, in order
RECURSIVE QueryAll(_, _)
QueryAll(d, statements) ==
  IF Len(statements) = 0 THEN d
  ELSE QueryAll(Query(d, Head(statements)), Tail(statements))

\* the try block of one pass, lines 70-83
TryBlock(direction, fileName) ==
  <<Statement("BEGIN", 0),
    Statement(IF direction = "up" THEN "UP" ELSE "DOWN", fileName),
    Statement(IF direction = "up" THEN "INSERT" ELSE "DELETE", fileName),
    Statement("COMMIT", 0)>>

\* a variant whose catch block sends nothing
FailedPassNoRollback(direction, fileName, failing) ==
  SubSeq(TryBlock(direction, fileName), 1, failing)

\* the statements of a pass whose statement number `failing` is rejected:
\* the try block up to it, then the catch block's ROLLBACK, lines 84-85
FailedPass(direction, fileName, failing) ==
  SubSeq(TryBlock(direction, fileName), 1, failing) \o <<Statement("ROLLBACK", 0)>>

\* what MStart keeps of the operation that came before the call
Prior(l) ==
  IF l.op = "runMigrations"
  THEN [op |-> l.op, threw |-> l.threw, direction |-> l.direction, ran |-> l.ran]
  ELSE [op |-> l.op, threw |-> l.threw]

\* an empty migrations directory and a database without bookkeeping table
InitMigrations ==
  /\ kind = "table"
  /\ tqb = NoBuilder
  /\ fresh = NoBuilder
  /\ ins = NoBuilder
  /\ upd = NoBuilder
  /\ del = NoBuilder
  /\ ncalls = 0
  /\ reused = FALSE
  /\ calledUnsafe = FALSE
  /\ last = [op |-> "setup", threw |-> FALSE]
  /\ root = NewQueryBuilder
  /\ AsideInit

MigrationStep ==
  UNCHANGED <<kind, tqb, fresh, ins, upd, del, ncalls, reused, calledUnsafe, held,
              root, builders, calls>>

\* a developer adds the up and down files of a new migration
MCreateFile ==
  \E n \in 1..MaxMigrations :
    /\ ~run.active
    /\ n \notin files
    /\ files' = files \cup {n}
    /\ last' = [op |-> "createMigration", threw |-> FALSE]
    /\ UNCHANGED <<db, run>>
    /\ MigrationStep

\* runMigrations up to the loop: creates the bookkeeping table when missing,
\* reads the applied names and lists the files of the direction
MStart ==
  \E direction \in {"up", "down"} : \E numberOfMigrations \in 1..MaxRevert :
    /\ ~run.active
    /\ direction = "up" => numberOfMigrations = 1
    /\ db' = [db EXCEPT !.exists = TRUE]
    /\ run' = [active |-> TRUE, direction |-> direction,
               numberOfMigrations |-> numberOfMigrations,
               applied |-> {db.rows[i] : i \in 1..Len(db.rows)},
               migrationFiles |-> MigrationFiles(direction, numberOfMigrations),
               before |-> db, ran |-> <<>>, reading |-> files, log |-> <<>>,
               prior |-> Prior(last)]
    /\ last' = [op |-> "runMigrations.start", threw |-> FALSE]
    /\ UNCHANGED files
    /\ MigrationStep

\* one pass of the loop over a file that is not to be run
MSkip ==
  /\ run.active
  /\ Len(run.migrationFiles) > 0
  /\ ~ShouldRun(run.direction, run.applied, Head(run.migrationFiles))
  /\ run' = [run EXCEPT !.migrationFiles = Tail(@)]
  /\ last' = [op |-> "runMigrations.skip", threw |-> FALSE]
  /\ UNCHANGED <<files, db>>
  /\ MigrationStep

\* one pass of the loop that commits: BEGIN, the file's SQL, the bookkeeping
\* statement, COMMIT
MCommit ==
  /\ run.active
  /\ Len(run.migrationFiles) > 0
  /\ ShouldRun(run.direction, run.applied, Head(run.migrationFiles))
  /\ LET fileName == Head(run.migrationFiles)
     IN /\ db' = QueryAll(db, TryBlock(run.direction, fileName))
        /\ run' = [run EXCEPT !.migrationFiles = Tail(@), !.ran = Append(@, fileName),
                              !.log = @ \o TryBlock(run.direction, fileName)]
  /\ last' = [op |-> "runMigrations.commit", threw |-> FALSE]
  /\ UNCHANGED files
  /\ MigrationStep

\* one pass of the loop in which the database rejects the file's SQL
\* (statement 2 of the try block) or the bookkeeping statement (statement 3):
\* the rejected statement changes nothing, the catch block sends ROLLBACK and
\* the error is thrown out of runMigrations
MRollback ==
  \E failing \in {2, 3} :
    /\ run.active
    /\ Len(run.migrationFiles) > 0
    /\ ShouldRun(run.direction, run.applied, Head(run.migrationFiles))
    /\ LET fileName == Head(run.migrationFiles)
           sent == FailedPass(run.direction, fileName, failing)
           accepted == SubSeq(sent, 1, failing - 1) \o SubSeq(sent, failing + 1, Len(sent))
       IN /\ db' = QueryAll(db, accepted)
          /\ last' = [op |-> "runMigrations", threw |-> TRUE, direction |-> run.direction,
                      numberOfMigrations |-> run.numberOfMigrations,
                      before |-> run.before, ran |-> run.ran, failed |-> fileName,
                      failing |-> failing, after |-> db', files |-> run.reading,
                      log |-> run.log \o sent, prior |-> run.prior]
    /\ run' = NoRun
    /\ UNCHANGED files
    /\ MigrationStep

\* the loop is over: runMigrations returns
MReturn ==
  /\ run.active
  /\ Len(run.migrationFiles) = 0
  /\ run' = NoRun
  /\ last' = [op |-> "runMigrations", threw |-> FALSE, direction |-> run.direction,
              numberOfMigrations |-> run.numberOfMigrations, before |-> run.before,
              ran |-> run.ran, after |-> db, files |-> run.reading,
              log |-> run.log, prior |-> run.prior]
  /\ UNCHANGED <<files, db>>
  /\ MigrationStep

NextMigrations == MCreateFile \/ MStart \/ MSkip \/ MCommit \/ MRollback \/ MReturn

SpecMigrations == InitMigrations /\ [][NextMigrations]_vars

\* ------------------------------------------------------------------------
\* Parameter-free drafts: one TableQueryBuilder driven through the calls that
\* bind no parameter, up to MaxOrderCalls per draft; calls records them
\* ------------------------------------------------------------------------
\* the builder after call c
Apply(d, c) ==
  CASE c.op = "select" -> Select(d, c.arg)
    [] c.op = "count" -> Count(d, "id", "n")
    [] c.op = "window" -> Window(d, "RANK", "id", "r", c.arg.partitionBy, c.arg.orderBy)
    [] c.op = "with" -> With(d, c.arg, Sub0)
    [] c.op = "join" -> Join(d, c.arg.type, c.arg.localTable, c.arg.foreignTable,
                             c.arg.localColumn, c.arg.foreignColumn, c.arg.alias,
                             c.arg.selects)
    [] c.op = "include" -> Include(d, c.arg.table, c.arg.localColumn, c.arg.foreignColumn,
                                   c.arg.alias, c.arg.projection)
    [] c.op = "groupBy" -> GroupBy(d, c.arg)
    [] c.op = "orderBy" -> OrderBy(d, "name", c.arg)
    [] c.op = "limit" -> Limit(d, c.arg)
    [] c.op = "offset" -> Offset(d, c.arg)
    [] c.op = "distinct" -> Distinct(d)

OrderCall(c) ==
  /\ kind = "table"
  /\ ncalls < MaxOrderCalls
  /\ tqb' = Apply(tqb, c)
  /\ calls' = Append(calls, c)
  /\ ncalls' = ncalls + 1
  /\ last' = Called(c.op)
  /\ UNCHANGED <<kind, fresh, ins, upd, del, reused, calledUnsafe, held, root, builders,
                 files, db, run>>

OSelect ==
  \E columns \in {<<S("id"), S("name")>>, <<S("email")>>} :
    OrderCall([kind |-> "select", op |-> "select", arg |-> columns])

OCount == OrderCall([kind |-> "select", op |-> "count"])

OWindow ==
  \E w \in WindowInputs : OrderCall([kind |-> "select", op |-> "window", arg |-> w])

OWith ==
  \E name \in {CteName, "posts"} : OrderCall([kind |-> "with", op |-> "with", arg |-> name])

OJoin == \E j \in JoinInputs : OrderCall([kind |-> "join", op |-> "join", arg |-> j])

OInclude ==
  \E i \in IncludeInputs : OrderCall([kind |-> "include", op |-> "include", arg |-> i])

OGroupBy == OrderCall([kind |-> "groupBy", op |-> "groupBy", arg |-> <<"name">>])

OOrderBy ==
  \E direction \in {"ASC", "DESC"} :
    OrderCall([kind |-> "orderBy", op |-> "orderBy", arg |-> direction])

OLimit == \E n \in {5, 7} : OrderCall([kind |-> "limit", op |-> "limit", arg |-> n])

OOffset == OrderCall([kind |-> "offset", op |-> "offset", arg |-> 10])

ODistinct == OrderCall([kind |-> "distinct", op |-> "distinct"])

\* toSQL: throws and leaves the draft, or returns the statement and resets
OToSQL ==
  /\ kind = "table"
  /\ IF ToSQLThrows(tqb)
     THEN /\ last' = [op |-> "toSQL", threw |-> TRUE, error |-> IncludeError,
                      pre |-> tqb, calls |-> calls]
          /\ UNCHANGED <<tqb, ncalls, reused, calls>>
     ELSE /\ last' = [op |-> "toSQL", threw |-> FALSE, result |-> ToSQL(tqb),
                      pre |-> tqb, calls |-> calls]
          /\ tqb' = ResetState(tqb)
          /\ ncalls' = 0
          /\ reused' = TRUE
          /\ calls' = <<>>
  /\ UNCHANGED <<kind, fresh, ins, upd, del, calledUnsafe, held, root, builders,
                 files, db, run>>

NextOrder ==
  \/ OSelect \/ OCount \/ OWindow \/ OWith \/ OJoin \/ OInclude \/ OGroupBy
  \/ OOrderBy \/ OLimit \/ OOffset \/ ODistinct \/ OToSQL

SpecOrder == Init /\ [][NextOrder]_vars

\* ------------------------------------------------------------------------
\* Drafts of predicates: where(), orWhere() and having() in every order, the
\* calls that returned kept in `calls`, then toSQL
\* ------------------------------------------------------------------------
BindCall(c, next) ==
  /\ kind = "table"
  /\ ncalls < MaxBindCalls
  /\ IF c.op # "having" /\ WhereThrows(c.arg.operator, c.arg.value)
     THEN /\ last' = Threw(c.op, "Invalid value for WHERE clause")
          /\ UNCHANGED <<tqb, ncalls, calls>>
     ELSE /\ tqb' = next
          /\ calls' = Append(calls, c)
          /\ ncalls' = ncalls + 1
          /\ last' = Called(c.op)
  /\ UNCHANGED <<kind, fresh, ins, upd, del, reused, calledUnsafe, held, root, builders,
                 files, db, run>>

BWhere ==
  \E in \in WhereInputs :
    BindCall([kind |-> "where", op |-> "where", arg |-> in],
             Where(tqb, in.column, in.operator, in.value))

BOrWhere ==
  \E in \in OrWhereInputs :
    BindCall([kind |-> "orWhere", op |-> "orWhere", arg |-> in],
             OrWhere(tqb, in.column, in.operator, in.value))

BHaving ==
  \E in \in HavingInputs :
    BindCall([kind |-> "having", op |-> "having", arg |-> in],
             Having(tqb, in.column, in.operator, in.value))

NextBind == BWhere \/ BOrWhere \/ BHaving \/ OToSQL

SpecBind == Init /\ [][NextBind]_vars

\* ------------------------------------------------------------------------
\* Properties
\* ------------------------------------------------------------------------
Rendered(name) == last.op = name /\ ~last.threw
Range(seq) == {seq[i] : i \in 1..Len(seq)}
LastOf(seq) == seq[Len(seq)]

\* C1: the placeholder numbers of every SELECT statement toSQL returns are
\* exactly 1..length(params), each standing for one position only
C1_PlaceholdersSequential ==
  Rendered("toSQL") =>
    /\ PlaceholderSet(last.result.sql) = 1..Len(last.result.params)
    /\ Len(PlaceholderSeq(last.result.sql)) = Len(last.result.params)

\* C2: selectSubquery on a draft with M parameters appends the K parameters of
\* the subquery and embeds its SQL with the placeholders $(M+1)..$(M+K)
C2_SelectSubqueryOffset ==
  last.op = "selectSubquery" =>
    LET M == last.M
        K == Len(last.sub.params)
        embedded == LastOf(tqb.selectedColumns)
    IN /\ Len(tqb.params) = M + K
       /\ \A n \in 1..K : tqb.params[M + n] = last.sub.params[n]
       /\ PlaceholderSeq(embedded)
            = [i \in 1..Len(PlaceholderSeq(last.sub.sql)) |->
                 PlaceholderSeq(last.sub.sql)[i] + M]
       /\ PlaceholderSet(embedded) = (M + 1)..(M + K)

\* C3: whereSubquery on a draft with M parameters rewrites every $n of the
\* subquery once to $(n+M) and appends its K parameters in order; a predicate
\* added to a draft takes its numbers from length(params)+1 on, that is from
\* $(M+K+1) after the subquery
C3_WhereSubqueryOffset ==
  /\ last.op = "whereSubquery" =>
       LET M == last.M
           K == Len(last.sub.params)
           sub == last.sub.sql
           clause == LastOf(tqb.whereClauses)
       IN /\ Len(tqb.params) = M + K
          /\ \A n \in 1..K : tqb.params[M + n] = last.sub.params[n]
          /\ Len(clause) = Len(sub) + 4
          /\ \A i \in 1..Len(sub) :
               IF sub[i].t = "$"
               THEN clause[i + 3] = [t |-> "$", n |-> sub[i].n + M]
               ELSE clause[i + 3] = sub[i]
  /\ (last.op \in {"where", "orWhere"} /\ ~last.threw) =>
       LET numbers == PlaceholderSeq(LastOf(tqb.whereClauses))
       IN /\ Len(numbers) = Len(tqb.params) - last.M
          /\ \A i \in 1..Len(numbers) : numbers[i] = last.M + i
  /\ last.op = "having" =>
       PlaceholderSeq(LastOf(tqb.havingClauses)) = <<last.M + 1>>

C3_Witness ==
  /\ last.op = "whereSubquery"
  /\ last.M > 0
  /\ Len(last.sub.params) > 1

\* C4: the parameters of the CTEs are part of the params toSQL returns, in
\* with() order and ahead of the parent's own parameters
C4_CteParamsPrepended ==
  Rendered("toSQL") =>
    last.result.params
      = Concat([i \in 1..Len(last.pre.ctes) |-> last.pre.ctes[i].query.params])
        \o last.pre.params

\* C5: DELETE toSQL throws the missing-WHERE error exactly when the draft has
\* no predicate and allowUnsafeDelete was not called on it; with the override
\* and no predicate it returns DELETE FROM <table> and no params
C5_DeleteRequiresWhere ==
  last.op = "delete.toSQL" =>
    /\ (last.threw /\ last.error = WhereRequiredError)
         <=> (Len(last.pre.wheres) = 0 /\ ~last.calledUnsafe)
    /\ (Len(last.pre.wheres) = 0 /\ last.calledUnsafe) =>
         /\ ~last.threw
         /\ SubSeq(last.result.sql, 1, 3)
              = <<[t |-> "DELETE", n |-> 0], [t |-> "FROM", n |-> 0],
                  [t |-> last.pre.table, n |-> 0]>>
         /\ ~last.pre.returningColumns.def => Len(last.result.sql) = 3
         /\ [t |-> "WHERE", n |-> 0] \notin Range(last.result.sql)
         /\ last.result.params = <<>>

C5_Witness ==
  /\ Rendered("delete.toSQL")
  /\ Len(last.pre.wheres) = 0
  /\ last.calledUnsafe

\* C6: single-mode UPDATE toSQL throws the missing-WHERE error exactly when the
\* draft has no predicate and allowUnsafeUpdate was not called on it; with the
\* override and no predicate the statement has no WHERE clause
C6_UpdateRequiresWhere ==
  (last.op = "update.toSQL" /\ ~last.pre.batchUpdates.def) =>
    /\ (last.threw /\ last.error = WhereRequiredError)
         <=> (Len(last.pre.wheres) = 0 /\ ~last.calledUnsafe)
    /\ (Len(last.pre.wheres) = 0 /\ last.calledUnsafe) =>
         /\ ~last.threw
         /\ [t |-> "WHERE", n |-> 0] \notin Range(last.result.sql)

\* C7: a statement rendered on a reused TableQueryBuilder equals the statement
\* the same calls render on a newly created builder for the table and alias
C7_ReuseEqualsFresh ==
  (last.op = "toSQL" /\ last.reused) =>
    /\ last.threw = last.freshThrew
    /\ ~last.threw => last.result = last.freshResult

C7_Witness ==
  /\ Rendered("toSQL")
  /\ last.reused
  /\ Len(last.result.params) > 0
  /\ Len(last.pre.whereClauses) > 0

\* the columns select() can name
IsBaseColumn(c) == \E columns \in SelectInputs : c \in Range(columns)

\* C8: toSQL on a draft with an include throws the include error exactly when
\* select() named no base column, whatever else the select list holds
C8_IncludeNeedsSelect ==
  (last.op = "toSQL" /\ Len(last.pre.includes) > 0) =>
    (last.threw /\ last.error = IncludeError)
      <=> ~(\E i \in 1..Len(last.pre.selectedColumns) :
              IsBaseColumn(last.pre.selectedColumns[i]))

\* the values an explicit IN list binds for a predicate: its elements
RECURSIVE ListedValues(_)
ListedValues(wheres) ==
  IF Len(wheres) = 0 THEN <<>>
  ELSE LET w == Head(wheres)
       IN (IF w.operator = "IN" /\ w.value.kind = "array"
           THEN [i \in 1..Len(w.value.items) |->
                   [kind |-> "scalar", items |-> <<w.value.items[i]>>]]
           ELSE <<w.value>>)
          \o ListedValues(Tail(wheres))

Tok(s) == [t |-> s, n |-> 0]
Dollar(n) == [t |-> "$", n |-> n]
\* ( $from , ... , $to )
RECURSIVE PlaceholderList(_, _)
PlaceholderList(from, to) ==
  IF from > to THEN <<>>
  ELSE IF from = to THEN <<Dollar(from)>>
  ELSE <<Dollar(from), Tok(",")>> \o PlaceholderList(from + 1, to)

IsInArray(w) == w.operator = "IN" /\ w.value.kind = "array"
\* part occurs in text as a run of consecutive lexemes
Contains(text, part) ==
  \E k \in 0..(Len(text) - Len(part)) : SubSeq(text, k + 1, k + Len(part)) = part
\* a predicate as it stands in the statement, without the OR connective
Predicate(w) == IF w[1] = Tok("OR") THEN SubSeq(w, 2, Len(w)) ELSE w
Ascending(numbers) == \A i \in 1..Len(numbers) : numbers[i] = i

\* C9: an IN predicate over an array of N >= 1 values binds N parameters in
\* array order and prints a list of N consecutive placeholders in SELECT and
\* DELETE; in a single-row UPDATE it binds the array as one parameter and
\* prints <column> = ANY($n)
C9_InPredicate ==
  /\ (last.op \in {"where", "orWhere"} /\ ~last.threw /\ IsInArray(last.arg)) =>
       LET N == Len(last.arg.value.items)
           clause == LastOf(tqb.whereClauses)
       IN /\ N >= 1
          /\ Len(tqb.params) = last.M + N
          /\ \A i \in 1..N :
               tqb.params[last.M + i] = [kind |-> "scalar", items |-> <<last.arg.value.items[i]>>]
          /\ SubSeq(clause, Len(clause) - 2 * N - 1, Len(clause))
               = <<Tok("IN"), Tok("(")>> \o PlaceholderList(last.M + 1, last.M + N)
                 \o <<Tok(")")>>
  /\ Rendered("toSQL") =>
       \A i \in 1..Len(last.pre.whereClauses) :
         Contains(last.result.sql, Predicate(last.pre.whereClauses[i]))
  /\ Rendered("delete.toSQL") =>
       /\ last.result.params = ListedValues(last.pre.wheres)
       /\ Ascending(PlaceholderSeq(last.result.sql))
       /\ Len(PlaceholderSeq(last.result.sql)) = Len(last.result.params)
       /\ (Len(last.pre.wheres) = 1 /\ IsInArray(last.pre.wheres[1])) =>
            LET N == Len(last.pre.wheres[1].value.items)
            IN SubSeq(last.result.sql, 4, 4 + Len(last.pre.wheres[1].column) + 2 * N + 2)
                 = <<Tok("WHERE")>> \o last.pre.wheres[1].column
                   \o <<Tok("IN"), Tok("(")>> \o PlaceholderList(1, N) \o <<Tok(")")>>
  /\ (Rendered("update.toSQL") /\ ~last.pre.batchUpdates.def) =>
       LET nset == Len(last.pre.setClause)
           wheres == last.pre.wheres
       IN /\ Len(last.result.params) = nset + Len(wheres)
          /\ Ascending(PlaceholderSeq(last.result.sql))
          /\ \A i \in 1..Len(wheres) :
               /\ last.result.params[nset + i] = wheres[i].value
               /\ IsInArray(wheres[i]) =>
                    \E k \in 1..Len(last.result.sql) :
                      SubSeq(last.result.sql, k, k + Len(wheres[i].column) + 4)
                        = wheres[i].column
                          \o <<Tok("="), Tok("ANY"), Tok("("), Dollar(nset + i), Tok(")")>>

C9_Witness ==
  /\ Rendered("update.toSQL")
  /\ ~last.pre.batchUpdates.def
  /\ \E i \in 1..Len(last.pre.wheres) :
       IsInArray(last.pre.wheres[i]) /\ Len(last.pre.wheres[i].value.items) >= 2

\* the position of the VALUES keyword of an INSERT statement
ValuesAt(sql) == CHOOSE k \in 1..Len(sql) : sql[k] = Tok("VALUES")

\* the value of key k in row, undefined when the row lacks the key
ValueOf(row, k) ==
  IF \E i \in 1..Len(row) : row[i].key = k
  THEN row[CHOOSE i \in 1..Len(row) : row[i].key = k].value
  ELSE [kind |-> "undefined", items |-> <<>>]

\* C10: an INSERT of R >= 1 rows whose first row has C keys renders R tuples
\* of C placeholders numbered $1..$(R*C) row by row, and parameter (r-1)*C+c
\* is row r's value for the c-th key of the first row
C10_InsertRowMajor ==
  Rendered("insert.toSQL") =>
    LET rows == last.pre.values.rows
        R == Len(rows)
        C == Len(rows[1])
        sql == last.result.sql
        at == ValuesAt(sql)
        width == 2 * C + 1
    IN /\ R >= 1
       /\ PlaceholderSeq(sql) = [i \in 1..R * C |-> i]
       /\ Len(last.result.params) = R * C
       /\ \A r \in 1..R : \A c \in 1..C :
            last.result.params[(r - 1) * C + c] = ValueOf(rows[r], rows[1][c].key)
       /\ \A r \in 1..R :
            LET start == at + 1 + (r - 1) * (width + 1)
            IN /\ SubSeq(sql, start, start + width - 1)
                    = <<Tok("(")>> \o PlaceholderList((r - 1) * C + 1, r * C) \o <<Tok(")")>>
               /\ r < R => sql[start + width] = Tok(",")
       /\ LET end == at + R * (width + 1) - 1
          IN Len(sql) > end => sql[end + 1] \in {Tok("ON"), Tok("RETURNING")}

C10_Witness ==
  /\ Rendered("insert.toSQL")
  /\ Len(last.pre.values.rows) >= 2
  /\ Len(last.pre.values.rows[1]) >= 2

\* the sum f[1] + ... + f[n]
RECURSIVE SumTo(_, _)
SumTo(f, n) == IF n = 0 THEN 0 ELSE f[n] + SumTo(f, n - 1)

\* the elements of seq without repetition, in order of first appearance
FirstAppearance(seq) ==
  LET firsts == {i \in 1..Len(seq) : \A j \in 1..(i - 1) : seq[j] # seq[i]}
      at(k) == CHOOSE i \in firsts : Cardinality({j \in firsts : j <= i}) = k
  IN [k \in 1..Cardinality(firsts) |-> seq[at(k)]]

\* the predicate of a batch pair, `k1 = $(base+1) AND k2 = $(base+2) ...`
PairPredicate(u, base) ==
  JoinStr([k \in 1..Len(u.where) |->
             <<Tok(u.where[k].key), Tok("="), Dollar(base + k)>>], <<Tok("AND")>>)

\* C11: a batch UPDATE over P pairs renders one CASE entry per distinct set
\* column in order of first appearance, each with one WHEN <pair predicate>
\* THEN $k branch per pair, then one WHERE that OR-joins the P pair
\* predicates; the placeholders are $1..$N in text order and params holds, per
\* column, each pair's where values then its set value, then every pair's
\* where values again
C11_BatchUpdateRender ==
  (Rendered("update.toSQL") /\ last.pre.batchUpdates.def) =>
    LET updates == last.pre.batchUpdates.v
        NP == Len(updates)
        cols == FirstAppearance(Concat([p \in 1..NP |-> Keys(updates[p].set)]))
        NC == Len(cols)
        width == [p \in 1..NP |-> Len(updates[p].where) + 1]
        nwhere == [p \in 1..NP |-> Len(updates[p].where)]
        stride == SumTo(width, NP)
        base(c, p) == (c - 1) * stride + SumTo(width, p - 1)
        wbase(p) == NC * stride + SumTo(nwhere, p - 1)
        branch(c, p) ==
          <<Tok("WHEN")>> \o PairPredicate(updates[p], base(c, p))
          \o <<Tok("THEN"), Dollar(base(c, p) + width[p])>>
        entry(c) ==
          <<Tok(cols[c]), Tok("="), Tok("CASE")>>
          \o Concat([p \in 1..NP |-> branch(c, p)])
          \o <<Tok("ELSE"), Tok(cols[c]), Tok("END")>>
        sql == last.result.sql
        params == last.result.params
        N == NC * stride + SumTo(nwhere, NP)
    IN /\ sql = <<Tok("UPDATE"), Tok(last.pre.table), Tok("SET")>>
                \o JoinStr([c \in 1..NC |-> entry(c)], <<Tok(",")>>)
                \o <<Tok("WHERE")>>
                \o JoinStr([p \in 1..NP |-> PairPredicate(updates[p], wbase(p))],
                           <<Tok("OR")>>)
                \o ReturningText(last.pre.returningColumns)
       /\ PlaceholderSeq(sql) = [i \in 1..N |-> i]
       /\ Len(params) = N
       /\ \A c \in 1..NC : \A p \in 1..NP :
            /\ \A k \in 1..nwhere[p] : params[base(c, p) + k] = updates[p].where[k].value
            /\ params[base(c, p) + width[p]] = ValueOf(updates[p].set, cols[c])
       /\ \A p \in 1..NP : \A k \in 1..nwhere[p] :
            params[wbase(p) + k] = updates[p].where[k].value

C11_Witness ==
  /\ Rendered("update.toSQL")
  /\ last.pre.batchUpdates.def
  /\ Len(last.pre.batchUpdates.v) = 2
  /\ Len(last.pre.batchUpdates.v[1].where) = 2
  /\ Len(last.result.params) >= 10

\* the text of a statement from its last WHERE keyword to its end
WhereText(sql) ==
  LET at == CHOOSE k \in 1..Len(sql) :
              sql[k] = Tok("WHERE") /\ \A j \in (k + 1)..Len(sql) : sql[j] # Tok("WHERE")
  IN SubSeq(sql, at, Len(sql))

\* C12: a SELECT draft of where() and orWhere() predicates with at least one
\* where() predicate renders WHERE, the where() predicates joined by AND in
\* call order, then ` OR p` for exactly one orWhere() predicate and
\* ` AND (p1 OR p2 ...)` in call order for two or more
C12_WhereRender ==
  LET IsOr(w) == w[1] = Tok("OR")
      IsAnd(w) == w[1] # Tok("OR")
      ands == SelectSeq(last.pre.whereClauses, IsAnd)
      ors == SelectSeq(last.pre.whereClauses, IsOr)
      preds == [i \in 1..Len(ors) |-> Predicate(ors[i])]
  IN (Rendered("toSQL") /\ Len(ands) >= 1) =>
       WhereText(last.result.sql)
         = <<Tok("WHERE")>> \o JoinStr(ands, <<Tok("AND")>>)
           \o (IF Len(ors) = 1 THEN <<Tok("OR")>> \o preds[1]
               ELSE IF Len(ors) >= 2
                    THEN <<Tok("AND"), Tok("(")>> \o JoinStr(preds, <<Tok("OR")>>)
                         \o <<Tok(")")>>
                    ELSE <<>>)

\* C13: on a SELECT draft, where() and orWhere() called with an undefined or
\* null value, or with IN and an empty array, throw at that call, and params
\* and the predicate list are what they were before the call
C13_InvalidWhereThrows ==
  (/\ last.op \in {"where", "orWhere"}
   /\ \/ last.arg.value.kind \in {"undefined", "null"}
      \/ /\ last.arg.operator = "IN"
         /\ last.arg.value.kind = "array"
         /\ last.arg.value.items = <<>>)
  => /\ last.threw
     /\ tqb.params = last.pre.params
     /\ tqb.whereClauses = last.pre.whereClauses

C13_Witness ==
  /\ last.op = "orWhere"
  /\ last.threw
  /\ last.arg.operator = "IN"
  /\ last.arg.value.kind = "array"
  /\ Len(tqb.params) >= 2
  /\ Len(tqb.whereClauses) >= 2

\* C14: the {sql, params} a toSQL call returned stays what it was: no later
\* clause call or toSQL on the same builder, and no later with,
\* selectSubquery or whereSubquery that embeds it, changes its sql or the
\* contents of its params
C14_ResultImmutable ==
  held.has => held.sql = held.sqlThen /\ held.params = held.paramsThen

C14_Witness ==
  /\ held.has
  /\ Len(held.params) >= 1
  /\ Rendered("toSQL")
  /\ reused
  /\ Len(last.pre.ctes) + Len(last.pre.selectedColumns) >= 1
  /\ Len(last.result.params) > Len(held.params)
  /\ Len(tqb.params) = 0

\* C15: builders obtained from separate from() calls on one root share no
\* mutable state: in every interleaving of the calls of two such builders,
\* each toSQL result is the result of the same calls made alone
C15_BuildersIndependent ==
  last.op = "two.toSQL" => last.result = last.soloResult

C15_Witness ==
  /\ last.op = "two.toSQL"
  /\ Len(last.result.params) >= 1
  /\ \E j \in Callers :
       /\ j # last.who
       /\ builders[j].has
       /\ builders[j].n >= 1
       /\ Len(builders[j].draft.params) >= 1
       /\ builders[j].draft.baseAlias # builders[last.who].draft.baseAlias

\* the last n elements of list, all of them when it has fewer
LastN(list, n) ==
  IF n >= Len(list) THEN list ELSE SubSeq(list, Len(list) - n + 1, Len(list))

\* C16: a runMigrations call with direction "down" and count N that returns
\* has reverted the N most recently applied migrations, all of them when
\* fewer than N were applied, in descending order of numeric prefix, and the
\* bookkeeping table is the table before the call without the reverted names
C16_RevertsLastApplied ==
  (last.op = "runMigrations" /\ ~last.threw /\ last.direction = "down") =>
    LET recent == Range(LastN(last.before.rows, last.numberOfMigrations))
        NotReverted(name) == name \notin recent
    IN /\ last.ran = Reverse(SortByPrefix(recent))
       /\ last.after.rows = SelectSeq(last.before.rows, NotReverted)

\* a value where() and orWhere() are to reject: undefined, null, or an empty
\* array under IN
InvalidPredicate(w) ==
  \/ w.value.kind \in {"undefined", "null"}
  \/ w.operator = "IN" /\ w.value.kind = "array" /\ w.value.items = <<>>

\* C17: where() and orWhere() of the UPDATE and DELETE builders throw on an
\* undefined or null value and on IN with an empty array, so no draft of
\* these builders ever holds such a predicate
C17_MutationWhereValidates ==
  /\ kind = "update" => \A i \in 1..Len(upd.wheres) : ~InvalidPredicate(upd.wheres[i])
  /\ kind = "delete" => \A i \in 1..Len(del.wheres) : ~InvalidPredicate(del.wheres[i])

\* C18: the insert() call that received an empty array raises "No rows
\* provided for insert.": after insert() has returned, the new
\* InsertQueryBuilder holds at least one row
C18_EmptyInsertThrowsAtInsert ==
  (last.op = "insert" /\ ~last.threw) => Len(ins.values.rows) > 0

\* C18 as the code has it: insert() returns a builder for every argument, the
\* empty array included; toSQL throws "No rows provided for insert." exactly
\* when the builder holds no row, and then leaves the builder as it was
C18_EmptyInsertThrowsAtToSQL ==
  /\ last.op = "insert" => ~last.threw /\ kind = "insert"
  /\ last.op = "insert.toSQL" =>
       /\ last.threw <=> last.pre.values.rows = <<>>
       /\ last.threw => last.error = "No rows provided for insert." /\ ins = last.pre

C18_Witness ==
  /\ last.op = "insert.toSQL"
  /\ last.threw
  /\ last.pre.values.isArray
  /\ last.pre.values.rows = <<>>
  /\ ~last.pre.returningColumns.def

\* C19: on an UPDATE or DELETE builder whose toSQL has returned a statement
\* rendered under allowUnsafeUpdate / allowUnsafeDelete, a toSQL that follows
\* with no call in between throws the missing-WHERE error
C19_OverrideEndsAtRender ==
  [][(/\ last.op \in {"update.toSQL", "delete.toSQL"}
      /\ ~last.threw
      /\ last.calledUnsafe
      /\ last'.op = last.op)
     => (last'.threw /\ last'.error = WhereRequiredError)]_vars

\* C20: a single-row UPDATE or a DELETE rendered from a draft of where()
\* predicates followed by orWhere() predicates joins the orWhere() predicates
\* with the OR connective: the statement holds the keyword OR
C20_MutationOrWhere ==
  (/\ last.op \in {"update.toSQL", "delete.toSQL"}
   /\ ~last.threw
   /\ last.op = "update.toSQL" => ~last.pre.batchUpdates.def
   /\ \E i, j \in 1..Len(last.pre.wheres) :
        i < j /\ last.pre.wheres[i].type = "AND" /\ last.pre.wheres[j].type = "OR")
  => Tok("OR") \in Range(last.result.sql)

\* the clause kinds of a parameter-free SELECT draft
ClauseKinds ==
  <<"select", "with", "join", "include", "groupBy", "orderBy", "limit", "offset", "distinct">>

\* the builder after the calls cs, made in this order
RECURSIVE ApplyAll(_, _)
ApplyAll(d, cs) == IF Len(cs) = 0 THEN d ELSE ApplyAll(Apply(d, Head(cs)), Tail(cs))

\* the calls cs regrouped kind by kind, each kind in its call order
ByKind(cs) ==
  Concat([k \in 1..Len(ClauseKinds) |->
            LET OfKind(c) == c.kind = ClauseKinds[k] IN SelectSeq(cs, OfKind)])

\* nesting depth of position i of a text: open minus closed parentheses before it
Depth(sql, i) ==
  Cardinality({j \in 1..(i - 1) : sql[j] = Tok("(")})
  - Cardinality({j \in 1..(i - 1) : sql[j] = Tok(")")})

\* the place of a keyword in the layout of a SELECT statement, 0 for other lexemes
LayoutRank(tok) ==
  CASE tok = Tok("WITH") -> 1
    [] tok = Tok("SELECT") -> 2
    [] tok = Tok("FROM") -> 3
    [] tok = Tok("JOIN") -> 4
    [] tok = Tok("WHERE") -> 5
    [] tok = Tok("GROUP") -> 6
    [] tok = Tok("HAVING") -> 7
    [] tok = Tok("ORDER") -> 8
    [] tok = Tok("LIMIT") -> 9
    [] tok = Tok("OFFSET") -> 10
    [] OTHER -> 0

\* C21: a parameter-free SELECT draft renders the SQL of the same calls made
\* kind by kind (select-list calls, with, join, include, groupBy, orderBy,
\* limit, offset, distinct, each kind in its own call order), and throws when
\* they throw: the interleaving of the kinds does not show; the top-level
\* keywords stand in the order WITH, SELECT, FROM, JOIN, WHERE, GROUP BY,
\* HAVING, ORDER BY, LIMIT, OFFSET
C21_InterleavingFree ==
  last.op = "toSQL" =>
    LET regrouped == ApplyAll(NewTableQueryBuilder(last.pre.tableName, last.pre.baseAlias),
                              ByKind(last.calls))
    IN /\ last.threw = ToSQLThrows(regrouped)
       /\ ~last.threw =>
            LET sql == last.result.sql
                top == {i \in 1..Len(sql) : LayoutRank(sql[i]) > 0 /\ Depth(sql, i) = 0}
            IN /\ sql = ToSQLText(regrouped)
               /\ last.result.params = <<>>
               /\ \A i, j \in top :
                    i < j => /\ LayoutRank(sql[i]) <= LayoutRank(sql[j])
                             /\ LayoutRank(sql[i]) = LayoutRank(sql[j])
                                  => sql[i] = Tok("JOIN")

C21_Witness ==
  /\ Rendered("toSQL")
  /\ Len(last.calls) = 3
  /\ last.calls[1].kind = "orderBy"
  /\ last.calls[2].kind = "join"
  /\ last.calls[3].kind = "select"

\* the calls of one kind among cs, in call order
CallsOf(cs, k) == LET OfKind(c) == c.kind = k IN SelectSeq(cs, OfKind)

\* position of the k-th top-level JOIN keyword of a text
KthJoin(sql, k) ==
  LET at == {i \in 1..Len(sql) : sql[i] = Tok("JOIN") /\ Depth(sql, i) = 0}
  IN CHOOSE i \in at : Cardinality({j \in at : j < i}) = k - 1

\* C22: the k-th join() of a draft is rendered "<TYPE> JOIN <foreignTable> ON"
\* when some with() call of the draft, made before or after it, registered a
\* CTE of the name of its foreign table, and
\* "<TYPE> JOIN <foreignTable> AS <alias> ON" otherwise
C22_JoinOmitsAsForCTE ==
  Rendered("toSQL") =>
    LET sql == last.result.sql
        joined == CallsOf(last.calls, "join")
        withs == CallsOf(last.calls, "with")
        cteNames == {withs[i].arg : i \in 1..Len(withs)}
    IN \A k \in 1..Len(joined) :
         LET j == joined[k].arg
             i == KthJoin(sql, k)
         IN /\ sql[i - 1] = Tok(j.type)
            /\ sql[i + 1] = Tok(j.foreignTable)
            /\ IF j.foreignTable \in cteNames
               THEN sql[i + 2] = Tok("ON")
               ELSE /\ sql[i + 2] = Tok("AS")
                    /\ sql[i + 3] = Tok(j.alias)
                    /\ sql[i + 4] = Tok("ON")

\* a join to the CTE's name made before with() registers it, then an aliased
\* join to a table that is no CTE
C22_Witness ==
  /\ Rendered("toSQL")
  /\ Len(last.calls) = 3
  /\ last.calls[1].kind = "join" /\ last.calls[1].arg.foreignTable = CteName
  /\ last.calls[2].kind = "with" /\ last.calls[2].arg = CteName
  /\ last.calls[3].kind = "join" /\ last.calls[3].arg.foreignTable = "posts"

\* BEGIN, the SQL of the file, the bookkeeping statement of its name, COMMIT
Transaction(direction, name) ==
  <<[q |-> "BEGIN", name |-> 0],
    [q |-> IF direction = "up" THEN "UP" ELSE "DOWN", name |-> name],
    [q |-> IF direction = "up" THEN "INSERT" ELSE "DELETE", name |-> name],
    [q |-> "COMMIT", name |-> 0]>>

\* the statements of the migrations names, one transaction each
Transactions(direction, names) ==
  Concat([i \in 1..Len(names) |-> Transaction(direction, names[i])])

ReturnedUp(l) == l.op = "runMigrations" /\ ~l.threw /\ l.direction = "up"

\* C23: a runMigrations "up" call that returns has executed exactly the
\* files whose names were not in the bookkeeping table, in ascending order of
\* numeric prefix, each as BEGIN, the file's SQL, the insert of its name,
\* COMMIT; every file name is then recorded; and an "up" call that follows
\* an "up" call that returned executes nothing and changes nothing
C23_UpAppliesPending ==
  ReturnedUp(last) =>
    LET recorded == Range(last.before.rows)
        ran == last.ran
    IN /\ Range(ran) = last.files \ recorded
       /\ \A i, j \in 1..Len(ran) : i < j => ran[i] < ran[j]
       /\ last.log = Transactions("up", ran)
       /\ last.files \subseteq Range(last.after.rows)
       /\ last.after.rows = last.before.rows \o ran
       /\ ReturnedUp(last.prior) => /\ ran = <<>>
                                    /\ last.log = <<>>
                                    /\ last.after = last.before

\* a second "up" run right after a run that applied migrations 1 and 3 next
\* to the recorded migration 2
C23_Witness ==
  /\ ReturnedUp(last)
  /\ ReturnedUp(last.prior)
  /\ last.prior.ran = <<1, 3>>
  /\ last.files = {1, 2, 3}
  /\ last.ran = <<>>

\* C24: a runMigrations call in which the SQL of a migration or its
\* bookkeeping statement fails has sent, after the transactions of the
\* migrations it committed, BEGIN, the statements up to the failing one and
\* ROLLBACK, and nothing for any later migration; the bookkeeping table and
\* the schema are those before the call changed by the committed migrations
\* only, and no transaction is left open
C24_FailureRollsBack ==
  (last.op = "runMigrations" /\ last.threw) =>
    LET up == last.direction = "up"
        ran == last.ran
        NotRan(name) == name \notin Range(ran)
    IN /\ last.log = Transactions(last.direction, ran)
                      \o SubSeq(Transaction(last.direction, last.failed), 1, last.failing)
                      \o <<[q |-> "ROLLBACK", name |-> 0]>>
       /\ last.failing \in {2, 3}
       /\ last.after.rows = IF up THEN last.before.rows \o ran
                            ELSE SelectSeq(last.before.rows, NotRan)
       /\ last.after.schema = IF up THEN last.before.schema \cup Range(ran)
                              ELSE last.before.schema \ Range(ran)
       /\ ~last.after.txn.open
       /\ db = last.after
       /\ ~run.active

\* the bookkeeping insert of the second pending migration fails after the
\* first was committed, a third being still pending
C24_Witness ==
  /\ last.op = "runMigrations" /\ last.threw
  /\ last.direction = "up"
  /\ last.ran = <<1>>
  /\ last.failed = 2
  /\ last.failing = 3
  /\ last.files = {1, 2, 3}

\* C25: in a rendered SELECT the predicates of where() stand right after
\* WHERE, joined by AND in call order, and what follows them holds, between
\* the connectives AND, OR and parentheses, the predicates of orWhere() in
\* call order and nothing else, for every base alias, "ORG" included
C25_PredicatePlacement ==
  (Rendered("toSQL") /\ Len(last.pre.whereClauses) > 0) =>
    LET IsOr(w) == w[1] = Tok("OR")
        IsAnd(w) == w[1] # Tok("OR")
        ands == SelectSeq(last.pre.whereClauses, IsAnd)
        ors == SelectSeq(last.pre.whereClauses, IsOr)
        chain == JoinStr(ands, <<Tok("AND")>>)
        text == WhereText(last.result.sql)
        group == SubSeq(text, 2 + Len(chain), Len(text))
        Operand(tok) == tok \notin {Tok("AND"), Tok("OR"), Tok("("), Tok(")")}
    IN /\ Len(text) >= 1 + Len(chain)
       /\ SubSeq(text, 2, 1 + Len(chain)) = chain
       /\ SelectSeq(group, Operand)
            = SelectSeq(Concat([i \in 1..Len(ors) |-> Predicate(ors[i])]), Operand)

\* C26: a call of allowUnsafeUpdate() sets the allowUnsafe flag of the UPDATE
\* builder and leaves the predicates accumulated by where() and orWhere() as
\* they were, so that where(p).allowUnsafeUpdate() and
\* allowUnsafeUpdate().where(p) hold, and render, the same WHERE
C26_UnsafeKeepsPredicates ==
  [][(kind = "update" /\ last'.op = "update.allowUnsafeUpdate" /\ ncalls' = ncalls + 1)
     => (upd'.allowUnsafe /\ upd'.wheres = upd.wheres)]_vars

\* C27: in a rendered batch UPDATE the CASE of column c has a WHEN branch for
\* exactly the pairs whose set map has the key c, so the statement holds as
\* many WHEN as the set maps have keys, and no parameter is bound for a
\* missing key: no entry of params is undefined
C27_MissingColumnNoBranch ==
  (Rendered("update.toSQL") /\ last.pre.batchUpdates.def) =>
    LET updates == last.pre.batchUpdates.v
        cols == FirstAppearance(Concat([p \in 1..Len(updates) |-> Keys(updates[p].set)]))
        sql == last.result.sql
        params == last.result.params
    IN /\ Cardinality({i \in 1..Len(sql) : sql[i] = Tok("WHEN")})
            = Cardinality({cp \in (1..Len(cols)) \X (1..Len(updates)) :
                             HasKey(updates[cp[2]].set, cols[cp[1]])})
       /\ \A i \in 1..Len(params) : params[i] # Undefined

\* C28: an UPDATE that toSQL returns from a builder whose allowUnsafe flag is
\* not set, batch mode included, holds WHERE followed by a predicate: after
\* WHERE comes neither the end of the statement, nor RETURNING, nor a
\* connective
C28_UpdateHasWhere ==
  (Rendered("update.toSQL") /\ ~last.pre.allowUnsafe) =>
    LET sql == last.result.sql
    IN \E i \in 1..(Len(sql) - 1) :
         /\ sql[i] = Tok("WHERE")
         /\ sql[i + 1] \notin {Tok("RETURNING"), Tok("OR"), Tok("AND")}

\* the values bound to the placeholders of the comparisons of a text, in
\* text order: a placeholder inside the parentheses of an IN list is none
BoundValues(text, params) ==
  LET at == {i \in 2..Len(text) :
               text[i].t = "$" /\ text[i - 1] \notin {Tok("("), Tok(",")}}
      RECURSIVE InOrder(_)
      InOrder(rest) ==
        IF rest = {} THEN <<>>
        ELSE LET i == CHOOSE k \in rest : \A m \in rest : k <= m
             IN <<IF text[i].n \in 1..Len(params) THEN params[text[i].n] ELSE Undefined>>
                \o InOrder(rest \ {i})
  IN InOrder(at)

\* the values of the calls of one kind that passed a scalar, in call order
ScalarsOf(cs, k) ==
  LET Picked(c) == c.kind = k /\ c.arg.value.kind = "scalar"
      picked == SelectSeq(cs, Picked)
  IN [i \in 1..Len(picked) |-> picked[i].arg.value]

\* C29: in a rendered SELECT the placeholders of the comparisons of the
\* WHERE clause stand for the scalar values of the where() calls followed by
\* those of the orWhere() calls, each in call order, and the placeholders of
\* the HAVING clause for the values of the having() calls in call order: the
\* $n of every predicate has params[n-1] equal to the value of its call, in
\* whatever order where(), orWhere() and having() were called
C29_PlaceholderBindsValue ==
  Rendered("toSQL") =>
    LET sql == last.result.sql
        params == last.result.params
        havingAt == IF Tok("HAVING") \in Range(sql)
                    THEN CHOOSE i \in 1..Len(sql) : sql[i] = Tok("HAVING")
                    ELSE Len(sql) + 1
    IN /\ BoundValues(SubSeq(sql, 1, havingAt - 1), params)
            = ScalarsOf(last.calls, "where") \o ScalarsOf(last.calls, "orWhere")
       /\ BoundValues(SubSeq(sql, havingAt, Len(sql)), params)
            = ScalarsOf(last.calls, "having")

\* having(2) called first, then orWhere(1), then where(2): rendered as
\* WHERE, the OR predicate, HAVING, with placeholders $3, $2, $1
C29_Witness ==
  /\ Rendered("toSQL")
  /\ Len(last.calls) = 3
  /\ last.calls[1].kind = "having" /\ last.calls[1].arg.value = Scalar(2)
  /\ last.calls[2].kind = "orWhere" /\ last.calls[2].arg.value = Scalar(1)
  /\ last.calls[3].kind = "where" /\ last.calls[3].arg.value = Scalar(2)
  /\ PlaceholderSeq(last.result.sql) = <<3, 2, 1>>

\* the builder the caller is driving
Draft ==
  CASE kind = "table" -> tqb
    [] kind = "insert" -> ins
    [] kind = "update" -> upd
    [] kind = "delete" -> del

ToSQLCalls == {"toSQL", "insert.toSQL", "update.toSQL", "delete.toSQL"}

\* C30: a toSQL call that throws hands out no result and leaves the builder
\* as it was before the call; the call that was missing, made next (select()
\* after the include error, where() after the missing-WHERE error of UPDATE
\* and DELETE), adds its clause to a draft that still holds every clause
\* accumulated before the throw
C30_ThrowKeepsDraft ==
  [][/\ (last'.op \in ToSQLCalls /\ last'.threw) =>
          /\ "result" \notin DOMAIN last'
          /\ last'.pre = Draft
          /\ Draft' = Draft
     /\ (last.op = "toSQL" /\ last.threw /\ last'.op = "select") =>
          /\ [tqb' EXCEPT !.selectedColumns = <<>>, !.operation = ""]
               = [last.pre EXCEPT !.selectedColumns = <<>>, !.operation = ""]
          /\ Len(tqb'.selectedColumns) > 0 => ~ToSQLThrows(tqb')
     /\ (/\ last.op = "update.toSQL" /\ last.threw /\ last.error = WhereRequiredError
         /\ last'.op = "update.where" /\ ~last'.threw) =>
          /\ [upd' EXCEPT !.wheres = <<>>] = last.pre
          /\ Len(upd'.wheres) = 1
          /\ ~UpdateMissingWhere(upd')
     /\ (/\ last.op = "delete.toSQL" /\ last.threw /\ last.error = WhereRequiredError
         /\ last'.op = "delete.where" /\ ~last'.threw) =>
          /\ [del' EXCEPT !.wheres = <<>>] = last.pre
          /\ Len(del'.wheres) = 1
          /\ ~DeleteMissingWhere(del')
    ]_vars

\* an UPDATE builder with a RETURNING list whose toSQL has just thrown the
\* missing-WHERE error
C30_Witness ==
  /\ kind = "update"
  /\ last.op = "update.toSQL"
  /\ last.threw
  /\ last.error = WhereRequiredError
  /\ upd.returningColumns.def
  /\ Len(upd.setClause) > 0

====
